---------------------------- MODULE Spec2Model ----------------------------
(***************************************************************************)
(* Model of sensor/main_sensor.py: the pipeline thread (run_pose_detection) *)
(* with its posture state machine, and the per-connection websocket tasks   *)
(* (ws_sender, ws_receiver, handler).                                       *)
(*                                                                          *)
(* Encoding.                                                                *)
(*  - The fused value, its EMA and the confidences are integers in          *)
(*    thousandths (0.40 is 400).  Python's None is NULL where the other     *)
(*    values are strings and NoValue where they are numbers >= 0.           *)
(*  - Time is in integer milliseconds and is measured from the present      *)
(*    instant: time.time() is always 0 (now) and every stored timestamp is  *)
(*    a number <= 0.  When dt milliseconds pass, every stored timestamp     *)
(*    moves back by dt.  The code reads a timestamp only in differences     *)
(*    now - ts that it compares with a constant, so a timestamp older than  *)
(*    every such constant is kept at the oldest value that matters.         *)
(*  - proc_scale is in thousandths (0.75 is 750); avg_ms and the frame      *)
(*    budget are in tenths of a millisecond (50 ms is 500); the overload    *)
(*    factors are in hundredths (1.10 is 110); cpu_pct is in percent.       *)
(*  - The posture metric, its means and the thresholds derived from them    *)
(*    are in thousandths (-29.5 is -29500).                                 *)
(***************************************************************************)
EXTENDS Integers, Sequences, FiniteSets, TLC

NULL == "None"
NoValue == 0 - 1

(***************************************************************************)
(* Program constants (main_sensor.py:38-49, 54), scaled as said above.      *)
(***************************************************************************)
STATE_FOCUS == "FOCUS"
STATE_REVIEW == "REVIEW"
STATE_TRANSITION_TO_FOCUS == "TRANSITION_TO_FOCUS"
STATE_TRANSITION_TO_REVIEW == "TRANSITION_TO_REVIEW"

WINSOR_DELTA == 350
FUSED_T_REVIEW_IN == 400
FUSED_T_FOCUS_IN == 600
FUSED_DWELL_REVIEW_MS == 750
FUSED_DWELL_FOCUS_MS == 750
MIN_FLIP_GAP_MS == 1500
CONF_MIN_DEFAULT == 650
HB_BASE_HZ == 4
HB_LOW_HZ == 2

\* The QoS constants (67-77).
TARGET_FPS_DEFAULT == 20
TARGET_FPS_MIN == 10
TARGET_FPS_MAX == 30
PROC_SCALE_DEFAULT == 750
PROC_SCALE_MIN == 550
PROC_SCALE_MAX == 900
PROC_SCALE_DOWN == 50
PROC_SCALE_UP == 30
FD_STRIDE_DEFAULT == 2
FD_STRIDE_MIN == 1
FD_STRIDE_MAX == 4
POSE_STRIDE_DEFAULT == 2
POSE_STRIDE_MIN == 1
POSE_STRIDE_MAX == 3
OVERLOAD_HIGH == 110
OVERLOAD_CLEAR == 85
CPU_OVERLOAD == 85
QoS_ADJUST_PERIOD == 1000

\* The calibration constants (65-66, 179, 790).
DEFAULT_THRESHOLD_Z == 0 - 29500
DEFAULT_TIME_THRESHOLD_MS == 750
BAND_MIN == 800
BAND_MAX == 3000
CALIB_DWELL_MS == 750

(***************************************************************************)
(* Bounds of the model.                                                     *)
(***************************************************************************)
\* Duration of a fast frame, in ms, and of a slow frame, in fast frames.
FrameMs == 150
SlowFrames == 4

TickSteps == {FrameMs, SlowFrames * FrameMs}
MaxTickMs == SlowFrames * FrameMs

\* Values the fused sample and its EMA take: the thresholds themselves and
\* values on either side of them.
EmaLevels == {300, 350, FUSED_T_REVIEW_IN, 550, FUSED_T_FOCUS_IN, 700}
\* Values of overall_conf: below, at and above the default conf_min.
ConfLevels == {400, CONF_MIN_DEFAULT, 900}

\* The websocket connections that are modelled.
Conns == {"c1", "c2"}

StableStates == {STATE_FOCUS, STATE_REVIEW}
TransitionStates == {STATE_TRANSITION_TO_FOCUS, STATE_TRANSITION_TO_REVIEW}

Max(a, b) == IF a >= b THEN a ELSE b
Min(a, b) == IF a <= b THEN a ELSE b

\* A timestamp ts after dt more milliseconds, kept no older than keep_ms.
Older(ts, dt, keep_ms) == Max(ts - dt, 0 - keep_ms)
\* A duration d after dt more milliseconds, counted up to keep_ms.
Longer(d, dt, keep_ms) == Min(d + dt, keep_ms)

\* g_qos["hb_interval"] as initialised (136), in ms
HbIntervalMs == 1000 \div HB_BASE_HZ

DwellMax == Max(FUSED_DWELL_REVIEW_MS, FUSED_DWELL_FOCUS_MS)
\* Time within which the state machine settles under steady input: the flip
\* gap, the dwell, and the two frames that find each of them elapsed.
SettleMs == MIN_FLIP_GAP_MS + FUSED_DWELL_FOCUS_MS + 2 * MaxTickMs

VARIABLES
    pipe_pc,                   \* run_pose_detection: "init", "loop", "exited"
    g_current_state,
    g_transition_target,
    g_transition_start_ts,
    g_last_stable_change_ts,
    g_fused_ema,
    g_health,                  \* [status, camera_error]
    CONF_MIN,
    \* history variables: what the pipeline's frames saw and did
    observe,                   \* the histories that are kept: a subset of Histories
    tick_conf,                 \* overall_conf of the last processed frame
    since_commit,              \* ms since the last commit of a stable state
    commit_gap,                \* ms between the last two commits
    exc,                       \* excursions of m since the last commit
    commit_width,              \* width of the excursion that led to the last commit
    run,                       \* the current run of frames with the same input
    lapse,                     \* what the frames since the start of the last
                               \* transition were like: [any, evaluated, paused]
    \* the websocket connections (handler, ws_sender, ws_receiver): each of
    \* these is a function of the connection
    conn,                      \* "idle", "open", "peer_closed", "closed_by_client", "closed_by_server"
    sender_pc,                 \* ws_sender: "idle", "poll", "send_state", "hb_check", "returned", "cancelled"
    s,                         \* ws_sender's local s (638)
    last_sent_state,           \* ws_sender's local last_sent_state
    since_hb,                  \* now - last_hb_time, kept up to the heartbeat interval
    hb,                        \* the transition block of the last heartbeat sent
    owed,                      \* history: the posture state changed on this connection
                               \* and no state message has carried the new state yet
    recv_pc,                   \* ws_receiver: "idle", "wait", "sampling", "failed", "returned", "cancelled"
    inbound,                   \* the inbound message ws_receiver handled last
    reply,                     \* the last message ws_receiver sent in answer to it
    phase_values,              \* the phases ws_receiver holds a calibration result for
    g_cam_switch_request,
    \* the QoS controller
    g_qos,                     \* [proc_scale, fd_stride, pose_stride, avg_ms,
                               \*  overload, hb_interval, cpu_pct]
    since_qos,                 \* now - _last_qos_adjust, kept up to QoS_ADJUST_PERIOD
    TARGET_FPS,                \* FRAME_BUDGET_MS is 1000.0 / TARGET_FPS (68, 818)
    down_run,                  \* history: the overloaded adjustments made in a row
                               \* since the start, NoValue once anything else
                               \* has touched the knobs
    \* the calibration profile
    calib_file,                \* the file at CALIB_PATH: [state, data]
    g_thresholds,              \* [mid, t_focus_in, t_review_in, dwell_ms]
    g_face_calib,              \* [review, focus, of]
    load_calibration_cache,    \* the profile record, or NoProfile for None
    saves,                     \* history: the profiles save_calibration has built
    used,                      \* history: the profiles the last frame read its z
                               \* anchors and its face baselines from
    \* the camera
    g_cam_index,               \* the index the pipeline opens at its start (51, 856)
    current_cam,               \* run_pose_detection's local (324): the index of the
                               \* device its capture is open on, NoValue before
    \* the features, the detectors and the fusion
    g_features,                \* [bbox_area, eye_dist, yaw_proxy, face_score,
                               \*  has_face, eyes_visible, has_pose]
    g_latest_metric,
    g_latest_confidence,
    g_fused_raw,
    face_lost_streak,          \* _face_lost_streak, kept up to FACE_LOST_FRAMES
    pose_lost_streak,          \* _pose_lost_streak, kept up to POSE_LOST_FRAMES
    g_health_flags,            \* g_health["flags"] without camera_error, and
                               \* g_health["brightness"]
    detector_runs,             \* history: what the latest runs of the two detectors
                               \* returned, and how the last iteration ended
    fuse_args,                 \* the values a frame normalises and fuses (440-454),
                               \* where the fusion is followed by itself
    \* the locks
    lock_owner,                \* for each lock the thread or task inside its
                               \* with block, NULL when it is free
    todo,                      \* for each thread or task the steps it has still to
                               \* take before its next branch
    at,                        \* for each thread or task the branch its steps
                               \* lead to
    running                    \* the task the event loop is executing, NULL
                               \* while every task is suspended at an await

fsm_vars == <<g_current_state, g_transition_target, g_transition_start_ts,
              g_last_stable_change_ts>>
pipe_vars == <<pipe_pc, g_fused_ema, g_health, CONF_MIN>>
hist_vars == <<observe, tick_conf, since_commit, commit_gap, exc,
               commit_width, run, lapse>>

sender_vars == <<sender_pc, s, last_sent_state, since_hb, hb, owed>>
recv_vars == <<recv_pc, inbound, reply, phase_values, g_cam_switch_request>>
ws_vars == <<conn, sender_vars, recv_vars>>
qos_vars == <<g_qos, since_qos, TARGET_FPS, down_run>>
calib_vars == <<calib_file, g_thresholds, g_face_calib, load_calibration_cache,
                saves, used>>

Histories == {"commit", "exc", "run", "qos", "calib", "lapse", "face_runs",
              "pose_runs"}
cam_vars == <<g_cam_index, current_cam>>
sense_vars == <<g_features, g_latest_metric, g_latest_confidence, g_fused_raw,
                face_lost_streak, pose_lost_streak, g_health_flags, detector_runs,
                fuse_args, lock_owner, todo, at, running>>
lock_vars == <<lock_owner, todo, at, running>>
vars == <<fsm_vars, pipe_vars, hist_vars, ws_vars, qos_vars, calib_vars, cam_vars,
          sense_vars>>

(***************************************************************************)
(* ema_update (293-298).  beta = 1 - exp(-max(dt, 1e-3)/EMA_TAU_S) lies in  *)
(* (0, 1), so prev + beta*(x_clamped - prev) lies between prev and          *)
(* x_clamped; the operator gives prev, which a small beta leaves, and every *)
(* level of EmaLevels in that range.                                        *)
(***************************************************************************)
ema_update(prev, x) ==
    IF x = NoValue THEN {prev}
    ELSE IF prev = NoValue THEN {x}
    ELSE LET x_clamped == Max(prev - WINSOR_DELTA, Min(prev + WINSOR_DELTA, x))
         IN  {prev} \cup {v \in EmaLevels : \/ (prev <= v /\ v <= x_clamped)
                                           \/ (x_clamped <= v /\ v <= prev)}

(***************************************************************************)
(* The health status of a processed frame (495-497).                        *)
(***************************************************************************)
HealthStatus(paused, degraded) ==
    IF paused THEN "PAUSED" ELSE IF degraded THEN "DEGRADED" ELSE "OK"

(***************************************************************************)
(* Line 510: the state machine is evaluated only with an EMA and when the   *)
(* health status is not PAUSED.                                             *)
(***************************************************************************)
\* A variant that evaluates transitions on PAUSED frames too.
TransitionEvaluated_WhilePaused(m, paused_now) == m # NoValue

TransitionEvaluated(m, paused_now) == m # NoValue /\ ~paused_now

(***************************************************************************)
(* The tests of the posture state machine.                                  *)
(***************************************************************************)
\* Variants without the confidence gate, and with a strict one.
Confident_Always(overall_conf, conf_min) == TRUE
Confident_Strictly(overall_conf, conf_min) == overall_conf > conf_min

\* 511: confident = (overall_conf >= CONF_MIN)
Confident(overall_conf, conf_min) == overall_conf >= conf_min

\* A variant without the minimum flip gap.
FlipGapElapsed_NoGap(since_flip_ms) == since_flip_ms >= 0

\* 514, 526: since_flip_ms >= MIN_FLIP_GAP_MS
FlipGapElapsed(since_flip_ms) == since_flip_ms >= MIN_FLIP_GAP_MS

\* A variant that requires half the dwell.
DwellElapsed_Half(now, start, dwell_ms) == 2 * (now - start) >= dwell_ms

\* 519, 531, 540, 546: (now - g_transition_start_ts)*1000.0 >= dwell
DwellElapsed(now, start, dwell_ms) == (now - start) >= dwell_ms

(***************************************************************************)
(* The posture state machine (511-547): the new values of                   *)
(* (state, g_transition_target, g_transition_start_ts,                      *)
(*  g_last_stable_change_ts) for one evaluated frame.                       *)
(***************************************************************************)
Fsm(st, tgt, start, last) ==
    [state |-> st, target |-> tgt, start_ts |-> start, last_ts |-> last]

\* A variant that counts the dwell from the last commit.
StartTransition_Backdated(st, tgt, now, last) == Fsm(st, tgt, last, last)

\* 516-517, 528-529: a transition starts
StartTransition(st, tgt, now, last) == Fsm(st, tgt, now, last)

\* A variant of the commit that leaves transition_target at the posture
\* committed.
Commit_KeepsTarget(st, start, now) == Fsm(st, st, start, now)

\* 520, 532, 541, 547: a stable state is committed
Commit(st, start, now) == Fsm(st, NULL, start, now)

\* A variant in which an abort is not carried out: the transition goes on.
Abort_Ignored(st, tgt, start, last) ==
    Fsm(IF tgt = "REVIEW" THEN STATE_TRANSITION_TO_REVIEW
        ELSE STATE_TRANSITION_TO_FOCUS, tgt, start, last)

\* A variant of the abort that leaves transition_target set.
Abort_KeepsTarget(st, tgt, start, last) == Fsm(st, tgt, start, last)

\* 523, 535, 539, 545: a transition is aborted
Abort(st, tgt, start, last) == Fsm(st, NULL, start, last)

FsmStep(cur, tgt, start, last, m, overall_conf, conf_min, now) ==
    LET low == FUSED_T_REVIEW_IN
        high == FUSED_T_FOCUS_IN
        since_flip_ms == now - last
        confident == Confident(overall_conf, conf_min)
        keep == Fsm(cur, tgt, start, last)
    IN
    IF cur = STATE_FOCUS THEN
        IF m <= low /\ FlipGapElapsed(since_flip_ms) /\ confident THEN
            IF tgt # "REVIEW" THEN
                StartTransition(STATE_TRANSITION_TO_REVIEW, "REVIEW", now, last)
            ELSE IF DwellElapsed(now, start, FUSED_DWELL_REVIEW_MS) /\ confident THEN
                Commit(STATE_REVIEW, start, now)
            ELSE keep
        ELSE IF tgt = "REVIEW" /\ (m > low \/ ~confident) THEN
            Abort(STATE_FOCUS, tgt, start, last)
        ELSE keep
    ELSE IF cur = STATE_REVIEW THEN
        IF m >= high /\ FlipGapElapsed(since_flip_ms) /\ confident THEN
            IF tgt # "FOCUS" THEN
                StartTransition(STATE_TRANSITION_TO_FOCUS, "FOCUS", now, last)
            ELSE IF DwellElapsed(now, start, FUSED_DWELL_FOCUS_MS) /\ confident THEN
                Commit(STATE_FOCUS, start, now)
            ELSE keep
        ELSE IF tgt = "FOCUS" /\ (m < high \/ ~confident) THEN
            Abort(STATE_REVIEW, tgt, start, last)
        ELSE keep
    ELSE IF cur = STATE_TRANSITION_TO_REVIEW THEN
        IF m > low \/ ~Confident(overall_conf, conf_min) THEN
            Abort(STATE_FOCUS, tgt, start, last)
        ELSE IF DwellElapsed(now, start, FUSED_DWELL_REVIEW_MS) THEN
            Commit(STATE_REVIEW, start, now)
        ELSE keep
    ELSE \* STATE_TRANSITION_TO_FOCUS
        IF m < high \/ ~Confident(overall_conf, conf_min) THEN
            Abort(STATE_REVIEW, tgt, start, last)
        ELSE IF DwellElapsed(now, start, FUSED_DWELL_FOCUS_MS) THEN
            Commit(STATE_FOCUS, start, now)
        ELSE keep

\* The stable posture a state belongs to: a transition belongs to the
\* posture it leaves.
Side(st) ==
    IF st \in {STATE_FOCUS, STATE_TRANSITION_TO_REVIEW} THEN STATE_FOCUS
    ELSE STATE_REVIEW

(***************************************************************************)
(* History of the input seen by the state machine.                          *)
(*   exc   the excursions of m beyond the threshold opposite to the current *)
(*         posture since that posture was committed: n counts them (2 is    *)
(*         "two or more"), open says that the last processed frame was in   *)
(*         one, width is the time since the first frame of the excursion    *)
(*         while it is the only one so far.                                 *)
(*   run   the current run of processed frames with the same input          *)
(*         (m, overall_conf, health status), for the inputs that are held   *)
(*         steady in the scenarios: ms is the time since its first frame,   *)
(*         from the posture state before that frame.                        *)
(***************************************************************************)
Beyond(st, m) ==
    /\ m # NoValue
    /\ IF Side(st) = STATE_FOCUS THEN m <= FUSED_T_REVIEW_IN
                                 ELSE m >= FUSED_T_FOCUS_IN

NoExc == [n |-> 0, open |-> FALSE, width |-> NoValue]

ExcAfter(e, st, m, dt) ==
    IF ~Beyond(st, m) THEN [n |-> e.n, open |-> FALSE, width |-> NoValue]
    ELSE IF e.open
         THEN [e EXCEPT !.width = IF e.n = 1 THEN Longer(e.width, dt, DwellMax)
                                  ELSE NoValue]
    ELSE [n |-> Min(2, e.n + 1), open |-> TRUE,
          width |-> IF e.n = 0 THEN 0 ELSE NoValue]

NoRun == [ms |-> NoValue, from |-> NULL]

\* Frames that drive the state machine to FOCUS.
GoodFrame(m, overall_conf, conf_min, status) ==
    /\ m # NoValue /\ m > FUSED_T_FOCUS_IN
    /\ overall_conf >= conf_min
    /\ status # "PAUSED"

\* Frames that ask for REVIEW without the confidence for it.
GatedFrame(m, overall_conf, conf_min, status) ==
    /\ m # NoValue /\ m <= FUSED_T_REVIEW_IN
    /\ overall_conf < conf_min
    /\ status # "PAUSED"

RunAfter(r, st, m, overall_conf, conf_min, status, same_input, dt) ==
    IF ~(\/ GoodFrame(m, overall_conf, conf_min, status)
         \/ GatedFrame(m, overall_conf, conf_min, status)) THEN NoRun
    ELSE IF r.ms # NoValue /\ same_input
    THEN [r EXCEPT !.ms = Longer(r.ms, dt, SettleMs)]
    ELSE [ms |-> 0, from |-> st]

(***************************************************************************)
(* History of the frames of a transition.                                   *)
(*   lapse   of the processed frames since the frame that started the last  *)
(*           transition: any says that on one of them the input did not     *)
(*           meet the condition of the transition (m beyond the threshold   *)
(*           and overall_conf >= CONF_MIN), evaluated that this happened on *)
(*           a frame on which the state machine was evaluated, paused that  *)
(*           one of them had the health status PAUSED.  A frame that        *)
(*           cap.read() does not deliver has no input and is not counted.   *)
(***************************************************************************)
NoLapse == [any |-> FALSE, evaluated |-> FALSE, paused |-> FALSE]

LapseAfter(l, st, new_st, m, overall_conf, conf_min, paused_now) ==
    IF st \notin TransitionStates
    THEN IF new_st \in TransitionStates THEN NoLapse ELSE l
    ELSE LET met == Beyond(st, m) /\ Confident(overall_conf, conf_min)
         IN  [any |-> l.any \/ ~met,
              evaluated |-> l.evaluated \/ (~met /\ TransitionEvaluated(m, paused_now)),
              paused |-> l.paused \/ paused_now]

(***************************************************************************)
(* The calibration profile (174-206).                                       *)
(***************************************************************************)
Abs(x) == IF x < 0 THEN 0 - x ELSE x

\* The face means of a phase: None where fewer than 5 samples were taken
\* (615).
NoFace == [eye_dist |-> NoValue, bbox_area |-> NoValue]

\* A variant without the floor and the ceiling of the band.
Thresholds_NoClamp(review_mean, focus_mean) ==
    LET mid == (review_mean + focus_mean) \div 2
        band == Abs(review_mean - focus_mean) \div 5
    IN  [mid |-> mid,
         t_focus_in |-> mid - band \div 2,
         t_review_in |-> mid + band \div 2,
         dwell_ms |-> CALIB_DWELL_MS]

\* save_calibration, 177-181.  The means are multiples of 0.1, so that the
\* halves and the fifth are whole thousandths.
Thresholds(review_mean, focus_mean) ==
    LET mid == (review_mean + focus_mean) \div 2
        gap == Abs(review_mean - focus_mean)
        band == Max(BAND_MIN, Min(BAND_MAX, gap \div 5))
    IN  [mid |-> mid,
         t_focus_in |-> mid - band \div 2,
         t_review_in |-> mid + band \div 2,
         dwell_ms |-> CALIB_DWELL_MS]

\* save_calibration, 182-200: the record built from the results pr and pf of
\* the two phases; of is its place in the sequence of the profiles built.
Profile(pr, pf, n) ==
    [review_mean |-> pr.mean, focus_mean |-> pf.mean,
     thresholds |-> Thresholds(pr.mean, pf.mean),
     face_baselines |-> [review |-> pr.face_means, focus |-> pf.face_means],
     of |-> n]

\* None, where a profile may stand (842).
NoProfile ==
    [review_mean |-> 0, focus_mean |-> 0,
     thresholds |-> [mid |-> 0, t_focus_in |-> 0, t_review_in |-> 0, dwell_ms |-> 0],
     face_baselines |-> [review |-> NoFace, focus |-> NoFace],
     of |-> 0]

\* The result of a phase that is missing (736), of one that had too few
\* samples (620), and of one that went well (627).
NoRes == [ok |-> FALSE, mean |-> 0, face_means |-> NoFace]
PhaseResults(means, faces) ==
    {[ok |-> TRUE, mean |-> m, face_means |-> f] : m \in means, f \in faces}

\* The profiles that may be built.
MaxSaves == 2

(***************************************************************************)
(* The QoS controller (554-592).                                            *)
(***************************************************************************)
\* FRAME_BUDGET_MS = 1000.0 / TARGET_FPS (68, 818), in tenths of a ms
FRAME_BUDGET_MS(fps) == 10000 \div fps

\* 565: overload = (avg_ms > FRAME_BUDGET_MS * OVERLOAD_HIGH)
Overloaded(avg_ms, fps) == avg_ms * 100 > FRAME_BUDGET_MS(fps) * OVERLOAD_HIGH

\* 579: overload or (cpu_pct is not None and cpu_pct >= CPU_OVERLOAD)
StepsDown(overload, cpu_pct) ==
    overload \/ (cpu_pct # NoValue /\ cpu_pct >= CPU_OVERLOAD)

\* 586: avg_ms < FRAME_BUDGET_MS * OVERLOAD_CLEAR
Clear(avg_ms, fps) == avg_ms * 100 < FRAME_BUDGET_MS(fps) * OVERLOAD_CLEAR

\* A variant that lowers the resolution before the detector strides.
StepDown_ScaleFirst(q) ==
    IF q.proc_scale > PROC_SCALE_MIN
    THEN [q EXCEPT !.proc_scale = Max(PROC_SCALE_MIN, @ - PROC_SCALE_DOWN)]
    ELSE IF q.pose_stride < POSE_STRIDE_MAX
    THEN [q EXCEPT !.pose_stride = @ + 1]
    ELSE IF q.fd_stride < FD_STRIDE_MAX
    THEN [q EXCEPT !.fd_stride = @ + 1]
    ELSE q

\* A variant that steps every knob that is not at its bound.
StepDown_All(q) ==
    [q EXCEPT !.pose_stride = Min(POSE_STRIDE_MAX, @ + 1),
              !.fd_stride = Min(FD_STRIDE_MAX, @ + 1),
              !.proc_scale = Max(PROC_SCALE_MIN, @ - PROC_SCALE_DOWN)]

\* 580-585: one step towards less work.
StepDown(q) ==
    IF q.pose_stride < POSE_STRIDE_MAX
    THEN [q EXCEPT !.pose_stride = @ + 1]
    ELSE IF q.fd_stride < FD_STRIDE_MAX
    THEN [q EXCEPT !.fd_stride = @ + 1]
    ELSE IF q.proc_scale > PROC_SCALE_MIN
    THEN [q EXCEPT !.proc_scale = Max(PROC_SCALE_MIN, @ - PROC_SCALE_DOWN)]
    ELSE q

\* 587-592: one step towards more work.
StepUp(q) ==
    IF q.proc_scale < PROC_SCALE_MAX
    THEN [q EXCEPT !.proc_scale = Min(PROC_SCALE_MAX, @ + PROC_SCALE_UP)]
    ELSE IF q.fd_stride > FD_STRIDE_MIN
    THEN [q EXCEPT !.fd_stride = @ - 1]
    ELSE IF q.pose_stride > POSE_STRIDE_MIN
    THEN [q EXCEPT !.pose_stride = @ - 1]
    ELSE q

\* 572-592: g_qos after an adjustment.
QosAdjusted(q, avg_ms, cpu_pct, fps) ==
    LET overload == Overloaded(avg_ms, fps)
        seen == [q EXCEPT !.avg_ms = avg_ms,
                          !.overload = overload,
                          !.cpu_pct = cpu_pct,
                          !.hb_interval = IF overload THEN 1000 \div HB_LOW_HZ
                                          ELSE 1000 \div HB_BASE_HZ]
    IN  IF StepsDown(overload, cpu_pct) THEN StepDown(seen)
        ELSE IF Clear(avg_ms, fps) THEN StepUp(seen)
        ELSE seen

\* The overloaded adjustments it takes to bring the default knobs to their
\* bounds.
DownSteps ==
    (POSE_STRIDE_MAX - POSE_STRIDE_DEFAULT) + (FD_STRIDE_MAX - FD_STRIDE_DEFAULT)
    + (PROC_SCALE_DEFAULT - PROC_SCALE_MIN) \div PROC_SCALE_DOWN

\* The frame durations of the scenario that down_run follows: an average of
\* 80 ms against the budget of 50 ms.
ScenarioAvgMs == 800

\* 554-592, at the end of a processed frame: avg_ms is the mean of the last
\* ROLLING_NSAMPLES frame durations (557-561), cpu_pct what psutil reports
\* (563-567).  The controller acts when QoS_ADJUST_PERIOD has passed since
\* it last did.
QosControl(dt, avg_ms, cpu_pct) ==
    LET elapsed == Longer(since_qos, dt, QoS_ADJUST_PERIOD)
        due == elapsed >= QoS_ADJUST_PERIOD
    IN  /\ since_qos' = IF due THEN 0 ELSE elapsed
        /\ g_qos' = IF due THEN QosAdjusted(g_qos, avg_ms, cpu_pct, TARGET_FPS)
                    ELSE g_qos
        /\ down_run' = IF "qos" \notin observe \/ ~due THEN down_run
                       ELSE IF /\ down_run # NoValue
                               /\ avg_ms = ScenarioAvgMs
                               /\ TARGET_FPS = TARGET_FPS_DEFAULT
                            THEN Min(down_run + 1, DownSteps)
                            ELSE NoValue
        /\ UNCHANGED TARGET_FPS

(***************************************************************************)
(* run_pose_detection, startup (324-347): the camera is opened; if that     *)
(* fails the thread sets PAUSED + camera_error and returns.                 *)
(***************************************************************************)
PipelineStart(opened) ==
    /\ pipe_pc = "init"
    /\ current_cam' = g_cam_index
    /\ UNCHANGED g_cam_index
    /\ IF opened
       THEN /\ pipe_pc' = "loop"
            /\ UNCHANGED g_health
       ELSE /\ pipe_pc' = "exited"
            /\ g_health' = [status |-> "PAUSED", camera_error |-> TRUE]
    /\ UNCHANGED <<g_fused_ema, CONF_MIN, fsm_vars, hist_vars, sense_vars, ws_vars, qos_vars,
                   calib_vars>>

(***************************************************************************)
(* run_pose_detection, one iteration of the frame loop up to the new state  *)
(* (353-552).  Its reads of the profile (440-445) are taken together.       *)
(*   dt           time that passes until the iteration reads now (456)      *)
(*   fused_ema    the value ema_update gives (459) for the frame's          *)
(*                fused_raw (449)                                           *)
(*   overall_conf the frame's confidence (471)                              *)
(*   paused, degraded   the health conditions of lines 495-496              *)
(* FrameCommon is what every iteration does, FrameMissed the frame that     *)
(* cap.read() fails to deliver, FrameProcessed a processed frame.           *)
(***************************************************************************)
FrameCommon(dt) ==
    /\ pipe_pc = "loop"
    /\ UNCHANGED <<pipe_pc, CONF_MIN>>
    /\ UNCHANGED <<calib_file, g_thresholds, g_face_calib, load_calibration_cache,
                   saves, cam_vars>>
    /\ UNCHANGED <<conn, sender_pc, s, last_sent_state, hb, recv_vars>>
    /\ since_hb' = [c \in Conns |->
                       IF conn[c] = "open"
                       THEN Longer(since_hb[c], dt, HbIntervalMs) ELSE since_hb[c]]

\* 356-361: cap.read() delivers no frame.
FrameMissed(dt) ==
    /\ FrameCommon(dt)
    /\ g_health' = [status |-> "PAUSED", camera_error |-> TRUE]
    /\ UNCHANGED used
    /\ g_transition_start_ts' = Older(g_transition_start_ts, dt, DwellMax)
    /\ g_last_stable_change_ts' = Older(g_last_stable_change_ts, dt, MIN_FLIP_GAP_MS)
    /\ UNCHANGED <<g_current_state, g_transition_target, g_fused_ema,
                   observe, tick_conf, commit_gap, commit_width, owed>>
    /\ since_commit' = IF since_commit = NoValue THEN NoValue
                       ELSE Longer(since_commit, dt, MIN_FLIP_GAP_MS)
    /\ exc' = IF exc.open /\ exc.n = 1
              THEN [exc EXCEPT !.width = Longer(exc.width, dt, DwellMax)]
              ELSE exc
    /\ run' = NoRun
    /\ UNCHANGED lapse

\* 362-552: a frame is delivered and processed.
FrameProcessed(dt, fused_ema, overall_conf, paused, degraded) ==
    /\ FrameCommon(dt)
    /\ LET now == 0
           start == Older(g_transition_start_ts, dt, DwellMax)
           last == Older(g_last_stable_change_ts, dt, MIN_FLIP_GAP_MS)
           status == HealthStatus(paused, degraded)
           paused_now == (status = "PAUSED")
           m == fused_ema
           same_input == /\ m = g_fused_ema
                         /\ overall_conf = tick_conf
                         /\ status = g_health.status
       IN  /\ \E new \in {IF TransitionEvaluated(m, paused_now)
                           THEN FsmStep(g_current_state, g_transition_target,
                                        start, last, m, overall_conf, CONF_MIN, now)
                           ELSE Fsm(g_current_state, g_transition_target,
                                    start, last)},
                 e \in {ExcAfter(exc, g_current_state, m, dt)} :
             LET committed == new.state \in StableStates
                              /\ new.state # Side(g_current_state)
             IN
               /\ g_fused_ema' = fused_ema
               /\ g_health' = [status |-> status, camera_error |-> FALSE]
               \* 440-441 read the z anchors from load_calibration_cache,
               \* 444-445 the face baselines from g_face_calib
               /\ used' = IF "calib" \notin observe THEN used
                          ELSE [z |-> load_calibration_cache.of,
                                face |-> g_face_calib.of]
               /\ g_current_state' = new.state
               /\ g_transition_target' = new.target
               /\ g_transition_start_ts' = new.start_ts
               /\ g_last_stable_change_ts' = new.last_ts
               /\ tick_conf' = overall_conf
               /\ UNCHANGED observe
               /\ owed' = [c \in Conns |->
                               IF conn[c] = "open" /\ new.state # g_current_state
                               THEN TRUE ELSE owed[c]]
               /\ since_commit' = IF "commit" \notin observe THEN since_commit
                                  ELSE IF committed THEN 0
                                  ELSE IF since_commit = NoValue THEN NoValue
                                  ELSE Longer(since_commit, dt, MIN_FLIP_GAP_MS)
               /\ commit_gap' = IF "commit" \notin observe \/ ~committed THEN commit_gap
                                ELSE IF since_commit = NoValue THEN NoValue
                                ELSE Longer(since_commit, dt, MIN_FLIP_GAP_MS)
               /\ commit_width' = IF "exc" \notin observe \/ ~committed THEN commit_width
                                  ELSE IF e.n = 1 THEN e.width ELSE NoValue
               /\ exc' = IF "exc" \notin observe THEN exc
                         ELSE IF committed THEN NoExc ELSE e
               /\ run' = IF "run" \notin observe THEN run
                         ELSE RunAfter(run, g_current_state, m, overall_conf, CONF_MIN,
                                       status, same_input, dt)
               /\ lapse' = IF "lapse" \notin observe THEN lapse
                           ELSE LapseAfter(lapse, g_current_state, new.state, m,
                                           overall_conf, CONF_MIN, paused_now)

\* An iteration whose frame is missed or processed; a processed frame fuses
\* to one of EmaLevels or to nothing.
PipelineFrame(dt, fused_ema, overall_conf, paused, degraded) ==
    \/ /\ fused_ema = g_fused_ema /\ overall_conf = tick_conf
       /\ ~paused /\ ~degraded
       /\ FrameMissed(dt)
    \/ /\ fused_ema \in UNION {ema_update(g_fused_ema, fused_raw) :
                                 fused_raw \in EmaLevels \cup {NoValue}}
       /\ FrameProcessed(dt, fused_ema, overall_conf, paused, degraded)

(***************************************************************************)
(* run_pose_detection, one whole iteration of the frame loop (353-600):     *)
(* the frame and, unless the frame was not delivered (the continue of 361), *)
(* the QoS controller.                                                      *)
(*   avg_ms, cpu_pct    the inputs of the QoS controller (561, 566)         *)
(***************************************************************************)
PipelineTick(dt, fused_ema, overall_conf, paused, degraded, avg_ms, cpu_pct) ==
    /\ PipelineFrame(dt, fused_ema, overall_conf, paused, degraded)
    /\ IF g_health'.camera_error
       THEN /\ since_qos' = Longer(since_qos, dt, QoS_ADJUST_PERIOD)
            /\ UNCHANGED <<g_qos, TARGET_FPS, down_run>>
       ELSE QosControl(dt, avg_ms, cpu_pct)

(***************************************************************************)
(* The features, the normalisation and the fusion (214-298), in             *)
(* thousandths; NoValue stands for None.                                    *)
(***************************************************************************)
W_Z_BASE == 600
W_EYE_BASE == 300
W_BBOX_BASE == 100
BRIGHTNESS_MIN == 60
BRIGHTNESS_GOOD == 120
BLUR_MIN == 60
BLUR_GOOD == 150
MAX_ABS_YAW == 550
FACE_LOST_FRAMES == 10
POSE_LOST_FRAMES == 10

\* 89-93, 114-124, 126-127: the module's initial values.
NoFeatures ==
    [bbox_area |-> NoValue, eye_dist |-> NoValue, yaw_proxy |-> NoValue,
     face_score |-> 0, has_face |-> FALSE, eyes_visible |-> FALSE,
     has_pose |-> FALSE]
NoFlags ==
    [low_light |-> FALSE, motion_blur |-> FALSE, face_lost |-> FALSE,
     pose_lost |-> FALSE, looking_away |-> FALSE, too_close_far |-> FALSE,
     brightness |-> NoValue]
NoRuns == [face |-> <<>>, pose |-> <<>>, last |-> "none"]

\* No frame is fused by itself.
NoArgs ==
    [metric |-> NoValue, review_mean |-> NoValue, focus_mean |-> NoValue,
     eye_dist |-> NoValue, eye_far |-> NoValue, eye_near |-> NoValue,
     bbox_area |-> NoValue, bbox_far |-> NoValue, bbox_near |-> NoValue,
     has_pose |-> FALSE, eyes_visible |-> FALSE, has_face |-> FALSE,
     face_score |-> 0, n |-> 0]

\* What face.process returns without a detection (397, 401).
NoDetection ==
    [score |-> NoValue, bbox_area |-> NoValue, eye_dist |-> NoValue,
     yaw_proxy |-> NoValue]

\* A variant that clamps nothing.
clamp01_Not(x) == x

\* 267-268
clamp01(x) ==
    IF x = NoValue THEN 0 ELSE IF x > 1000 THEN 1000 ELSE IF x < 0 THEN 0 ELSE x

\* A variant that reads a missing anchor as 0.
lin_norm_near1_Zero(x, far_mean, near_mean) ==
    IF x = NoValue THEN NoValue
    ELSE LET far == IF far_mean = NoValue THEN 0 ELSE far_mean
             near == IF near_mean = NoValue THEN 1000 ELSE near_mean
         IN  IF near = far THEN NoValue
             ELSE IF near > far
             THEN clamp01(((x - far) * 1000) \div (near - far))
             ELSE clamp01(((far - x) * 1000) \div (far - near))

\* 270-274; the quotient is rounded down to the thousandth
lin_norm_near1(x, far_mean, near_mean) ==
    IF x = NoValue \/ far_mean = NoValue \/ near_mean = NoValue
       \/ near_mean = far_mean
    THEN NoValue
    ELSE IF near_mean > far_mean
    THEN clamp01(((x - far_mean) * 1000) \div (near_mean - far_mean))
    ELSE clamp01(((far_mean - x) * 1000) \div (far_mean - near_mean))

\* 277-285: the effective weights, in millionths.
EffectiveWeights(z_norm, eye_norm, bbox_norm, has_pose, eyes_visible, has_face, face_score) ==
    LET fs == Max(0, Min(1000, face_score))
    IN  [wz |-> IF has_pose /\ z_norm # NoValue THEN W_Z_BASE * 1000 ELSE 0,
         weye |-> IF eyes_visible /\ eye_norm # NoValue THEN W_EYE_BASE * fs ELSE 0,
         wb |-> IF has_face /\ bbox_norm # NoValue THEN W_BBOX_BASE * fs ELSE 0]

\* 276-291; the quotient is rounded down to the thousandth
fuse_components(z_norm, eye_norm, bbox_norm, has_pose, eyes_visible, has_face, face_score) ==
    LET w == EffectiveWeights(z_norm, eye_norm, bbox_norm, has_pose,
                              eyes_visible, has_face, face_score)
        wsum == w.wz + w.weye + w.wb
        z == IF z_norm = NoValue THEN 0 ELSE z_norm
        e == IF eye_norm = NoValue THEN 0 ELSE eye_norm
        b == IF bbox_norm = NoValue THEN 0 ELSE bbox_norm
    IN  IF wsum <= 0 THEN NoValue
        ELSE clamp01((w.wz * z + w.weye * e + w.wb * b) \div wsum)

\* 293-298 with beta = 1 - exp(-max(dt, 1e-3)/EMA_TAU_S) given in
\* thousandths: a number of (0, 1).
ema_update_beta(prev, x, beta) ==
    IF x = NoValue THEN prev
    ELSE IF prev = NoValue THEN x
    ELSE LET x_clamped == Max(prev - WINSOR_DELTA, Min(prev + WINSOR_DELTA, x))
         IN  prev + (beta * (x_clamped - prev)) \div 1000

\* 307-311
norm_quality(val, vmin, vgood) ==
    IF val = NoValue THEN 0
    ELSE IF val <= vmin THEN 0
    ELSE IF val >= vgood THEN 1000
    ELSE ((val - vmin) * 1000) \div (vgood - vmin)

\* 214-265, 427-434: the face features after the frame.  A detection gives
\* new ones; without a run of the detector (405-406) and after a run without
\* a detection (401, 428-430) they are the ones of g_features.
FaceFeatures(feats, fd_run, det) ==
    IF fd_run /\ det # NoDetection
    THEN [bbox_area |-> det.bbox_area, eye_dist |-> det.eye_dist,
          yaw_proxy |-> det.yaw_proxy, face_score |-> det.score,
          has_face |-> det.score > 0, eyes_visible |-> det.eye_dist # NoValue,
          has_pose |-> feats.has_pose]
    ELSE feats

\* A variant that counts the frames on which the detector did not run.
StreakAfter_CountsSkips(streak, ran, found, limit) ==
    IF ran /\ found THEN 0 ELSE Min(streak + 1, limit)

\* 397-402, 413-419: a streak after a frame.
StreakAfter(streak, ran, found, limit) ==
    IF ~ran THEN streak ELSE IF found THEN 0 ELSE Min(streak + 1, limit)

\* The outcomes of the latest runs of a detector, the last one last.
RunsAfter(runs, ran, found, keep) ==
    IF ~ran THEN runs
    ELSE IF Len(runs) < keep THEN Append(runs, found)
    ELSE Append(Tail(runs), found)

\* 495-496
Paused(face_lost, low_light, c_bri, camera_error) ==
    face_lost \/ (low_light /\ c_bri = 0) \/ camera_error
Degraded(motion_blur, looking_away, pose_lost, too_close_far) ==
    motion_blur \/ looking_away \/ pose_lost \/ too_close_far

(***************************************************************************)
(* run_pose_detection, a processed frame with what it senses (362-552).     *)
(*   fd_run, pose_run   whether the detectors run on this frame (392, 408): *)
(*                      the frame counters and the strides of g_qos, which  *)
(*                      the controller and set_qos change, are taken as     *)
(*                      giving any pattern                                  *)
(*   det                the best detection of face.process, or NoDetection  *)
(*   nose_z             the metric from the pose landmarks, NoValue when    *)
(*                      the landmarks are missing (the except of 418)       *)
(*   brightness, blur_var   measure_brightness_blur (381)                   *)
(* The roll of the face is within MAX_ABS_ROLL_DEG.                         *)
(***************************************************************************)
FrameSensed(dt, fd_run, det, pose_run, nose_z, brightness, blur_var) ==
    LET feats == FaceFeatures(g_features, fd_run, det)
        metric == IF pose_run THEN nose_z ELSE g_latest_metric
        confidence == IF pose_run THEN (IF nose_z # NoValue THEN 1000 ELSE 0)
                      ELSE g_latest_confidence
        has_pose == IF pose_run THEN nose_z # NoValue ELSE g_features.has_pose
        features == [feats EXCEPT !.has_pose = has_pose]
        face_streak == StreakAfter(face_lost_streak, fd_run, det # NoDetection,
                                   FACE_LOST_FRAMES)
        pose_streak == StreakAfter(pose_lost_streak, pose_run, nose_z # NoValue,
                                   POSE_LOST_FRAMES)
        review_mean == IF load_calibration_cache = NoProfile THEN NoValue
                       ELSE load_calibration_cache.review_mean
        focus_mean == IF load_calibration_cache = NoProfile THEN NoValue
                      ELSE load_calibration_cache.focus_mean
        eye_far == g_face_calib.review.eye_dist
        eye_near == g_face_calib.focus.eye_dist
        bbox_far == g_face_calib.review.bbox_area
        bbox_near == g_face_calib.focus.bbox_area
        z_norm == lin_norm_near1(metric, review_mean, focus_mean)
        eye_norm == lin_norm_near1(features.eye_dist, eye_far, eye_near)
        bbox_norm == lin_norm_near1(features.bbox_area, bbox_far, bbox_near)
        fused_raw == fuse_components(z_norm, eye_norm, bbox_norm, has_pose,
                                     features.eyes_visible, features.has_face,
                                     features.face_score)
        c_z == IF has_pose /\ z_norm # NoValue THEN 1000 ELSE 0
        fs == Max(0, Min(1000, features.face_score))
        c_eye == IF features.eyes_visible /\ eye_norm # NoValue THEN fs ELSE 0
        c_box == IF features.has_face /\ bbox_norm # NoValue THEN fs ELSE 0
        c_bri == norm_quality(brightness, BRIGHTNESS_MIN, BRIGHTNESS_GOOD)
        c_blr == norm_quality(blur_var, BLUR_MIN, BLUR_GOOD)
        c_q == Min(c_bri, c_blr)
        overall_conf == (400 * c_z + 300 * c_eye + 200 * c_box + 100 * c_q) \div 1000
        low_light == brightness < BRIGHTNESS_MIN
        motion_blur == blur_var < BLUR_MIN
        yaw_val == IF features.yaw_proxy = NoValue THEN 0 ELSE Abs(features.yaw_proxy)
        looking_away == yaw_val > MAX_ABS_YAW
        face_lost == face_streak >= FACE_LOST_FRAMES
        pose_lost == pose_streak >= POSE_LOST_FRAMES
        too_close_far ==
            /\ eye_far \notin {NoValue, 0} /\ eye_near \notin {NoValue, 0}
            /\ features.eye_dist # NoValue
            /\ \/ 10 * features.eye_dist > 13 * eye_near
               \/ 10 * features.eye_dist < 7 * eye_far
        paused == Paused(face_lost, low_light, c_bri, FALSE)
        degraded == Degraded(motion_blur, looking_away, pose_lost, too_close_far)
    IN  /\ \E fused_ema \in ema_update(g_fused_ema, fused_raw) :
              FrameProcessed(dt, fused_ema, overall_conf, paused, degraded)
        /\ g_features' = features
        /\ g_latest_metric' = metric
        /\ g_latest_confidence' = confidence
        /\ g_fused_raw' = fused_raw
        /\ face_lost_streak' = face_streak
        /\ pose_lost_streak' = pose_streak
        /\ g_health_flags' =
              [low_light |-> low_light, motion_blur |-> motion_blur,
               face_lost |-> face_lost, pose_lost |-> pose_lost,
               looking_away |-> looking_away, too_close_far |-> too_close_far,
               brightness |-> brightness]
        /\ detector_runs' =
              [face |-> IF "face_runs" \notin observe THEN detector_runs.face
                        ELSE RunsAfter(detector_runs.face, fd_run,
                                       det # NoDetection, FACE_LOST_FRAMES),
               pose |-> IF "pose_runs" \notin observe THEN detector_runs.pose
                        ELSE RunsAfter(detector_runs.pose, pose_run,
                                       nose_z # NoValue, POSE_LOST_FRAMES),
               last |-> "processed"]
        /\ UNCHANGED <<fuse_args, lock_vars>>

\* The frame that cap.read() does not deliver, in a specification that
\* follows what the frames sense.
FrameMissedSensed(dt) ==
    /\ FrameMissed(dt)
    /\ detector_runs' = [detector_runs EXCEPT !.last = "missed"]
    /\ UNCHANGED <<g_features, g_latest_metric, g_latest_confidence, g_fused_raw,
                   face_lost_streak, pose_lost_streak, g_health_flags, fuse_args,
                   lock_vars>>

\* 395, 412: face.process or pose.process raises.  Neither call is inside a
\* try: the exception leaves run_pose_detection and ends the pipeline
\* thread.  The frame was delivered, camera_error has been cleared (364) and
\* the brightness stored (383); the streaks, the flags and the status are
\* left as the frame before set them.
PipelineRaises(brightness) ==
    /\ pipe_pc = "loop"
    /\ pipe_pc' = "raised"
    /\ g_health' = [g_health EXCEPT !.camera_error = FALSE]
    /\ g_health_flags' = [g_health_flags EXCEPT !.brightness = brightness]
    /\ detector_runs' = [detector_runs EXCEPT !.last = "raised"]
    /\ UNCHANGED <<g_features, g_latest_metric, g_latest_confidence, g_fused_raw,
                   face_lost_streak, pose_lost_streak, fuse_args, lock_vars>>
    /\ UNCHANGED <<g_fused_ema, CONF_MIN, fsm_vars, hist_vars, ws_vars, qos_vars,
                   calib_vars, cam_vars>>

(***************************************************************************)
(* The normalisation, the fusion and the EMA of a frame by themselves       *)
(* (440-462), applied to the values of fuse_args; the values of the next    *)
(* frame are drawn, n counts the frames fused.                              *)
(*   beta   1 - exp(-max(dt, 1e-3)/EMA_TAU_S) of the frame, in thousandths  *)
(***************************************************************************)
\* The frames that are fused in a run.
MaxFuseFrames == 3

FusedOf(a) ==
    fuse_components(lin_norm_near1(a.metric, a.review_mean, a.focus_mean),
                    lin_norm_near1(a.eye_dist, a.eye_far, a.eye_near),
                    lin_norm_near1(a.bbox_area, a.bbox_far, a.bbox_near),
                    a.has_pose, a.eyes_visible, a.has_face, a.face_score)

FuseFrame(beta, next_args) ==
    /\ fuse_args.n < MaxFuseFrames
    /\ next_args.n = fuse_args.n + 1
    /\ g_fused_raw' = FusedOf(fuse_args)
    /\ g_fused_ema' = ema_update_beta(g_fused_ema, FusedOf(fuse_args), beta)
    /\ fuse_args' = next_args
    /\ UNCHANGED <<g_features, g_latest_metric, g_latest_confidence,
                   face_lost_streak, pose_lost_streak, g_health_flags,
                   detector_runs, lock_vars>>
    /\ UNCHANGED <<pipe_pc, g_health, CONF_MIN, fsm_vars, hist_vars, ws_vars,
                   qos_vars, calib_vars, cam_vars>>

(***************************************************************************)
(* The websocket side.  For every client that connects, handler (826-834)   *)
(* starts ws_sender and ws_receiver as tasks of the event loop, waits for   *)
(* the first of them to finish and cancels the other.  The pipeline is a    *)
(* thread of its own and runs between any two steps of the tasks.  Every    *)
(* variable of a connection is a function of the connection.                *)
(***************************************************************************)
\* A task that has finished: it returned or an exception ended it.
\* The code of a coroutine runs on the one thread of the event loop from
\* one await to the next: while a receiver is between the start of
\* save_calibration (788) and its next await (793), no other coroutine runs.
EventLoopHeld == \E c \in Conns : recv_pc[c] \in {"saving", "publishing"}

\* 736-737: the results a receiver starts with.
NoPhases == [p \in {"REVIEW", "FOCUS"} |-> NoRes]

\* A variant that is content with one of the two.
BothPhases_Either(c) == phase_values[c]["REVIEW"].ok \/ phase_values[c]["FOCUS"].ok

\* 785-786: pr and pf are both there.
BothPhases(c) == phase_values[c]["REVIEW"].ok /\ phase_values[c]["FOCUS"].ok

Finished == {"returned", "failed"}
\* A task that no longer runs.
Ended == Finished \cup {"cancelled"}

NoHb == [target |-> "-", required_ms |-> 0]

\* The transition block of a heartbeat (682-687), elapsed_ms left out.
HbTransition(tgt) ==
    [target |-> tgt,
     required_ms |-> IF tgt = "REVIEW" THEN FUSED_DWELL_REVIEW_MS
                     ELSE IF tgt = "FOCUS" THEN FUSED_DWELL_FOCUS_MS ELSE 0]

\* handler (829-831): client c connected; both tasks start.  ws_sender
\* begins with last_sent_state = "" and last_hb_time = 0.0 (633-634),
\* ws_receiver with no phase results (736).
Connect(c) ==
    /\ ~EventLoopHeld
    /\ conn[c] = "idle"
    /\ conn' = [conn EXCEPT ![c] = "open"]
    /\ sender_pc' = [sender_pc EXCEPT ![c] = "poll"]
    /\ s' = [s EXCEPT ![c] = NULL]
    /\ last_sent_state' = [last_sent_state EXCEPT ![c] = ""]
    /\ since_hb' = [since_hb EXCEPT ![c] = HbIntervalMs]
    /\ recv_pc' = [recv_pc EXCEPT ![c] = "wait"]
    /\ phase_values' = [phase_values EXCEPT ![c] = NoPhases]
    /\ UNCHANGED <<hb, owed, inbound, reply, g_cam_switch_request>>
    /\ UNCHANGED <<fsm_vars, pipe_vars, hist_vars, sense_vars, qos_vars, calib_vars, cam_vars>>

\* ws_sender, 637-641: read the state; a state message is due when it
\* differs from the last one sent.
SenderPoll(c) ==
    /\ ~EventLoopHeld
    /\ conn[c] = "open" /\ sender_pc[c] = "poll"
    /\ s' = [s EXCEPT ![c] = g_current_state]
    /\ sender_pc' = [sender_pc EXCEPT ![c] =
                        IF g_current_state # last_sent_state[c]
                        THEN "send_state" ELSE "hb_check"]
    /\ UNCHANGED <<conn, last_sent_state, since_hb, hb, owed, recv_vars>>
    /\ UNCHANGED <<fsm_vars, pipe_vars, hist_vars, sense_vars, qos_vars, calib_vars, cam_vars>>

\* ws_sender, 642-648: the state message carrying s goes out.
SenderSendState(c) ==
    /\ ~EventLoopHeld
    /\ conn[c] = "open" /\ sender_pc[c] = "send_state"
    /\ last_sent_state' = [last_sent_state EXCEPT ![c] = s[c]]
    /\ owed' = [owed EXCEPT ![c] = IF s[c] = g_current_state THEN FALSE ELSE @]
    /\ sender_pc' = [sender_pc EXCEPT ![c] = "hb_check"]
    /\ UNCHANGED <<conn, s, since_hb, hb, recv_vars>>
    /\ UNCHANGED <<fsm_vars, pipe_vars, hist_vars, sense_vars, qos_vars, calib_vars, cam_vars>>

\* ws_sender, 650-715: when the heartbeat interval has passed a heartbeat is
\* built from the globals as they are now and sent; then the 20 ms sleep.
SenderHeartbeat(c) ==
    /\ ~EventLoopHeld
    /\ conn[c] = "open" /\ sender_pc[c] = "hb_check"
    /\ IF since_hb[c] >= HbIntervalMs
       THEN /\ hb' = [hb EXCEPT ![c] = HbTransition(g_transition_target)]
            /\ since_hb' = [since_hb EXCEPT ![c] = 0]
       ELSE UNCHANGED <<hb, since_hb>>
    /\ sender_pc' = [sender_pc EXCEPT ![c] = "poll"]
    /\ UNCHANGED <<conn, s, last_sent_state, owed, recv_vars>>
    /\ UNCHANGED <<fsm_vars, pipe_vars, hist_vars, sense_vars, qos_vars, calib_vars, cam_vars>>

\* The inbound messages, by what ws_receiver does with them.  arg says
\* whether the command's numeric argument (index, duration_s, value,
\* proc_scale / fd_stride / pose_stride) converts to a number.
ArgCommands == {"switch_camera", "calibrate_phase", "set_conf_min", "set_qos"}
PlainCommands == {"cameras", "calibrate_finalize"}
\* not valid JSON; valid JSON that is no object; an object with another cmd
OtherMessages == {"unparsable", "non_object", "unknown_cmd"}
Phases == {"REVIEW", "FOCUS"}
CamIndices == {0, 1}
SetConfValues == {400, 1200}

\* A value that float() / int() do not convert.
Unparsable == 0 - 2

\* The fields of a set_qos message; NoValue is a field that is absent.
NoOverride ==
    [proc_scale |-> NoValue, fd_stride |-> NoValue, pose_stride |-> NoValue,
     target_fps |-> NoValue]
QosOverrides ==
    { NoOverride,
      [proc_scale |-> 100, fd_stride |-> 0, pose_stride |-> 0, target_fps |-> 5],
      [proc_scale |-> 2000, fd_stride |-> 9, pose_stride |-> 9,
       target_fps |-> TARGET_FPS_DEFAULT],
      [proc_scale |-> 600, fd_stride |-> Unparsable, pose_stride |-> 1,
       target_fps |-> NoValue],
      [proc_scale |-> NoValue, fd_stride |-> 3, pose_stride |-> NoValue,
       target_fps |-> Unparsable] }

\* A variant that stores the value as it comes.
Clamp_Not(lo, hi, v) == v

\* max(lo, min(hi, v)) (807, 810, 813, 817)
Clamp(lo, hi, v) == Max(lo, Min(hi, v))

\* set_qos, 803-820: the fields are converted and stored one after the
\* other; a field that does not convert raises (806, 809, 812), leaving
\* the fields before it stored, except target_fps, whose exception is
\* swallowed (815-820).
SetQos(q, fps, data) ==
    LET given(v) == v \notin {NoValue, Unparsable}
        r1 == data.proc_scale = Unparsable
        q1 == IF given(data.proc_scale)
              THEN [q EXCEPT !.proc_scale =
                        Clamp(PROC_SCALE_MIN, PROC_SCALE_MAX, data.proc_scale)]
              ELSE q
        r2 == r1 \/ data.fd_stride = Unparsable
        q2 == IF ~r1 /\ given(data.fd_stride)
              THEN [q1 EXCEPT !.fd_stride =
                        Clamp(FD_STRIDE_MIN, FD_STRIDE_MAX, data.fd_stride)]
              ELSE q1
        r3 == r2 \/ data.pose_stride = Unparsable
        q3 == IF ~r2 /\ given(data.pose_stride)
              THEN [q2 EXCEPT !.pose_stride =
                        Clamp(POSE_STRIDE_MIN, POSE_STRIDE_MAX, data.pose_stride)]
              ELSE q2
    IN  [qos |-> q3,
         fps |-> IF ~r3 /\ given(data.target_fps)
                 THEN Clamp(TARGET_FPS_MIN, TARGET_FPS_MAX, data.target_fps)
                 ELSE fps,
         raised |-> r3]

NoMsg == [cmd |-> NULL, arg |-> NULL]
InboundMessages ==
    {[cmd |-> c, arg |-> a] : c \in ArgCommands, a \in {"numeric", "non_numeric"}}
    \cup {[cmd |-> c, arg |-> NULL] : c \in PlainCommands \cup OtherMessages}

\* The messages whose handling raises an exception that nothing in
\* ws_receiver catches: data.get on a non-object (745), int() (755),
\* float() (770), float() / int() (806-812).
Raises(msg) ==
    \/ msg.cmd = "non_object"
    \/ msg.cmd \in {"switch_camera", "calibrate_phase", "set_qos"}
       /\ msg.arg = "non_numeric"

\* ws_receiver, 740-821: one inbound message on connection c.
\*   idx, cam_ok   switch_camera's index and whether that camera opens
\*   phase         calibrate_phase's phase
\*   value         set_conf_min's value
\*   data          set_qos's fields
Receive(c, msg, idx, cam_ok, phase, value, data) ==
    /\ ~EventLoopHeld
    /\ conn[c] = "open" /\ recv_pc[c] = "wait"
    /\ IF msg.cmd = "calibrate_finalize" /\ BothPhases(c)
       THEN /\ saves < MaxSaves
            /\ calib_file' = [state |-> "empty", data |-> NoProfile]
       ELSE UNCHANGED calib_file
    /\ UNCHANGED <<g_thresholds, g_face_calib, load_calibration_cache, saves, used>>
    /\ IF msg.cmd = "set_qos"
       THEN (msg.arg = "non_numeric") <=> SetQos(g_qos, TARGET_FPS, data).raised
       ELSE data = NoOverride
    /\ IF msg.cmd = "set_qos"
       THEN /\ g_qos' = SetQos(g_qos, TARGET_FPS, data).qos
            /\ TARGET_FPS' = SetQos(g_qos, TARGET_FPS, data).fps
            /\ down_run' = IF "qos" \in observe THEN NoValue ELSE down_run
       ELSE UNCHANGED <<g_qos, TARGET_FPS, down_run>>
    /\ inbound' = [inbound EXCEPT ![c] =
                      IF msg.cmd = "calibrate_phase" /\ msg.arg = "numeric"
                      THEN [cmd |-> msg.cmd, arg |-> phase] ELSE msg]
    /\ IF Raises(msg)
       THEN /\ recv_pc' = [recv_pc EXCEPT ![c] = "failed"]
            /\ reply' = [reply EXCEPT ![c] = NULL]
            /\ UNCHANGED <<g_cam_switch_request, CONF_MIN>>
       ELSE IF msg.cmd \in {"unparsable", "unknown_cmd"}
       THEN /\ reply' = [reply EXCEPT ![c] = NULL]
            /\ UNCHANGED <<recv_pc, g_cam_switch_request, CONF_MIN>>
       ELSE IF msg.cmd = "cameras"
       THEN /\ reply' = [reply EXCEPT ![c] = "cameras"]
            /\ UNCHANGED <<recv_pc, g_cam_switch_request, CONF_MIN>>
       ELSE IF msg.cmd = "switch_camera"
       THEN /\ reply' = [reply EXCEPT ![c] =
                            IF cam_ok THEN "ack_switch_camera_ok"
                            ELSE "ack_switch_camera_open_failed"]
            /\ g_cam_switch_request' = IF cam_ok THEN idx ELSE g_cam_switch_request
            /\ UNCHANGED <<recv_pc, CONF_MIN>>
       ELSE IF msg.cmd = "calibrate_phase"
       THEN /\ reply' = [reply EXCEPT ![c] = "calib_status_sampling"]
            /\ recv_pc' = [recv_pc EXCEPT ![c] = "sampling"]
            /\ UNCHANGED <<g_cam_switch_request, CONF_MIN>>
       ELSE IF msg.cmd = "calibrate_finalize"
       THEN /\ IF BothPhases(c)
               THEN /\ recv_pc' = [recv_pc EXCEPT ![c] = "saving"]
                    /\ reply' = [reply EXCEPT ![c] = NULL]
               ELSE /\ reply' = [reply EXCEPT ![c] = "calib_status_error_missing_phase"]
                    /\ UNCHANGED recv_pc
            /\ UNCHANGED <<g_cam_switch_request, CONF_MIN>>
       ELSE IF msg.cmd = "set_conf_min"
       THEN /\ IF msg.arg = "numeric"
               THEN /\ CONF_MIN' = Max(0, Min(1000, value))
                    /\ reply' = [reply EXCEPT ![c] = "ack_set_conf_min"]
               ELSE /\ reply' = [reply EXCEPT ![c] = "ack_set_conf_min_error"]
                    /\ UNCHANGED CONF_MIN
            /\ UNCHANGED <<recv_pc, g_cam_switch_request>>
       ELSE \* set_qos
            /\ reply' = [reply EXCEPT ![c] = "ack_set_qos"]
            /\ UNCHANGED <<recv_pc, g_cam_switch_request, CONF_MIN>>
    /\ UNCHANGED <<conn, sender_vars, phase_values>>
    /\ UNCHANGED <<fsm_vars, pipe_pc, g_fused_ema, g_health, hist_vars, sense_vars, since_qos,
                   cam_vars>>

\* A variant in which a failed phase forgets the earlier result of the phase.
SamplingDone_Clears(c, res) ==
    /\ ~EventLoopHeld
    /\ conn[c] = "open" /\ recv_pc[c] = "sampling"
    /\ recv_pc' = [recv_pc EXCEPT ![c] = "wait"]
    /\ phase_values' = [phase_values EXCEPT ![c][inbound[c].arg] = res]
    /\ reply' = [reply EXCEPT ![c] = IF res.ok THEN "calib_result_phase"
                                     ELSE "calib_status_error_insufficient_samples"]
    /\ UNCHANGED <<conn, sender_vars, inbound, g_cam_switch_request>>
    /\ UNCHANGED <<fsm_vars, pipe_vars, hist_vars, sense_vars, qos_vars, calib_vars, cam_vars>>

\* ws_receiver, 772-783: collect_phase_samples returned res; with fewer
\* than 10 samples (620) the error status is sent, else the phase result is
\* kept.
SamplingDone(c, res) ==
    /\ ~EventLoopHeld
    /\ conn[c] = "open" /\ recv_pc[c] = "sampling"
    /\ recv_pc' = [recv_pc EXCEPT ![c] = "wait"]
    /\ IF res.ok
       THEN /\ phase_values' = [phase_values EXCEPT ![c][inbound[c].arg] = res]
            /\ reply' = [reply EXCEPT ![c] = "calib_result_phase"]
       ELSE /\ reply' = [reply EXCEPT ![c] = "calib_status_error_insufficient_samples"]
            /\ UNCHANGED phase_values
    /\ UNCHANGED <<conn, sender_vars, inbound, g_cam_switch_request>>
    /\ UNCHANGED <<fsm_vars, pipe_vars, hist_vars, sense_vars, qos_vars, calib_vars, cam_vars>>

\* save_calibration, 201-204, called at 788: the file, opened for writing
\* and so emptied when the message was taken up, is written; then the
\* thresholds and the face baselines are stored.  When the write fails the
\* exception ends the receiver.
SaveCalibration(c, written) ==
    /\ recv_pc[c] = "saving"
    /\ LET saved == Profile(phase_values[c]["REVIEW"], phase_values[c]["FOCUS"],
                            saves + 1)
       IN  IF written
           THEN /\ calib_file' = [state |-> "complete", data |-> saved]
                /\ g_thresholds' = saved.thresholds
                /\ g_face_calib' = [review |-> saved.face_baselines.review,
                                    focus |-> saved.face_baselines.focus,
                                    of |-> saved.of]
                /\ saves' = saves + 1
                /\ recv_pc' = [recv_pc EXCEPT ![c] = "publishing"]
           ELSE /\ calib_file' = [state |-> "partial", data |-> NoProfile]
                /\ recv_pc' = [recv_pc EXCEPT ![c] = "failed"]
                /\ UNCHANGED <<g_thresholds, g_face_calib, saves>>
    /\ UNCHANGED <<load_calibration_cache, used>>
    /\ UNCHANGED <<conn, sender_vars, inbound, reply, phase_values,
                   g_cam_switch_request>>
    /\ UNCHANGED <<fsm_vars, pipe_vars, hist_vars, sense_vars, qos_vars, cam_vars>>

\* ws_receiver, 792-793: the profile that save_calibration returned, which
\* is the one in the file, becomes load_calibration_cache, and calib_done
\* is sent; on a closed connection the send raises ConnectionClosed and the
\* task returns (823-824).
Publish(c) ==
    /\ recv_pc[c] = "publishing"
    /\ load_calibration_cache' = calib_file.data
    /\ IF conn[c] = "open"
       THEN /\ reply' = [reply EXCEPT ![c] = "calib_done"]
            /\ recv_pc' = [recv_pc EXCEPT ![c] = "wait"]
       ELSE /\ recv_pc' = [recv_pc EXCEPT ![c] = "returned"]
            /\ UNCHANGED reply
    /\ UNCHANGED <<calib_file, g_thresholds, g_face_calib, saves, used>>
    /\ UNCHANGED <<conn, sender_vars, inbound, phase_values, g_cam_switch_request>>
    /\ UNCHANGED <<fsm_vars, pipe_vars, hist_vars, sense_vars, qos_vars, cam_vars>>

\* The client of connection c closes it.
ClientClose(c) ==
    /\ conn[c] = "open"
    /\ conn' = [conn EXCEPT ![c] = "peer_closed"]
    /\ UNCHANGED <<sender_vars, recv_vars>>
    /\ UNCHANGED <<fsm_vars, pipe_vars, hist_vars, sense_vars, qos_vars, calib_vars, cam_vars>>

\* ws_sender, 716-717: on a closed connection the next send raises
\* ConnectionClosed and the task returns; its locals are gone.
SenderReturns(c) ==
    /\ ~EventLoopHeld
    /\ conn[c] = "peer_closed"
    /\ sender_pc[c] \in {"poll", "send_state", "hb_check"}
    /\ sender_pc' = [sender_pc EXCEPT ![c] = "returned"]
    /\ s' = [s EXCEPT ![c] = NULL]
    /\ last_sent_state' = [last_sent_state EXCEPT ![c] = ""]
    /\ since_hb' = [since_hb EXCEPT ![c] = HbIntervalMs]
    /\ UNCHANGED <<conn, hb, owed, recv_vars>>
    /\ UNCHANGED <<fsm_vars, pipe_vars, hist_vars, sense_vars, qos_vars, calib_vars, cam_vars>>

\* ws_receiver, 740 and 823-824: on a closed connection the iteration over
\* the messages ends, or a send raises ConnectionClosed, and the task
\* returns.
ReceiverReturns(c) ==
    /\ ~EventLoopHeld
    /\ conn[c] = "peer_closed"
    /\ recv_pc[c] \in {"wait", "sampling"}
    /\ recv_pc' = [recv_pc EXCEPT ![c] = "returned"]
    /\ UNCHANGED <<conn, sender_vars, inbound, reply, phase_values,
                   g_cam_switch_request>>
    /\ UNCHANGED <<fsm_vars, pipe_vars, hist_vars, sense_vars, qos_vars, calib_vars, cam_vars>>

\* A variant of the handler that leaves the pending task running.
Cancelled_Not(pc) == pc

\* 832: t.cancel() for a task that is pending.
Cancelled(pc) == IF pc \in Ended THEN pc ELSE "cancelled"

\* handler, 831-834: one task of connection c has finished; the wait
\* returns, the task still pending is cancelled (its locals are gone), and
\* the connection is closed as the handler returns.
HandlerReap(c) ==
    /\ ~EventLoopHeld
    /\ conn[c] \in {"open", "peer_closed"}
    /\ sender_pc[c] \in Finished \/ recv_pc[c] \in Finished
    /\ sender_pc' = [sender_pc EXCEPT ![c] = Cancelled(@)]
    /\ recv_pc' = [recv_pc EXCEPT ![c] = Cancelled(@)]
    /\ conn' = [conn EXCEPT ![c] = IF @ = "peer_closed" THEN "closed_by_client"
                                  ELSE "closed_by_server"]
    /\ owed' = [owed EXCEPT ![c] = FALSE]
    /\ s' = [s EXCEPT ![c] = NULL]
    /\ last_sent_state' = [last_sent_state EXCEPT ![c] = ""]
    /\ since_hb' = [since_hb EXCEPT ![c] = HbIntervalMs]
    /\ phase_values' = [phase_values EXCEPT ![c] = NoPhases]
    /\ UNCHANGED <<hb, inbound, reply, g_cam_switch_request>>
    /\ UNCHANGED <<fsm_vars, pipe_vars, hist_vars, sense_vars, qos_vars, calib_vars, cam_vars>>

(***************************************************************************)
(* The locks (81-129).  The pipeline is a thread of its own; ws_sender and  *)
(* ws_receiver are tasks of the event loop of the main thread (826-831),    *)
(* which executes one task at a time and changes task only at an await.     *)
(* A with block of a lock is an acquire step and a release step; a blocking *)
(* call of the thread (cap.read, time.sleep, a detector) is an "io" step,   *)
(* an await of a task (send, sleep, the next message) an "await" step.  The *)
(* code of a thread or task is cut at its branches: Program gives, for each *)
(* branch, the straight-line steps that may follow and the branch they lead *)
(* to.                                                                      *)
(***************************************************************************)
Locks == {"g_state_lock", "g_metric_lock", "g_feat_lock", "g_fused_lock",
          "g_health_lock", "g_qos_lock"}
Tasks == {"ws_sender", "ws_receiver"}
Threads == {"run_pose_detection"} \cup Tasks

Step(op, what) == [op |-> op, what |-> what]
Io(call) == <<Step("io", call)>>
Await(call) == <<Step("await", call)>>
Then(steps, next) == [steps |-> steps, next |-> next]

\* A variant that never leaves the block.
With_NoRelease(lock) == <<Step("acquire", lock)>>

\* A with block whose body neither takes a lock nor blocks; the lock is
\* released however the body ends.
With(lock) == <<Step("acquire", lock), Step("release", lock)>>

\* run_pose_detection, 313-600
PipelineProgram(label) ==
    CASE label = "start" ->
           {Then(With("g_health_lock"), "done"),                      \* 329-334
            Then(With("g_qos_lock"), "read")}                         \* 338-339
      [] label = "read" ->
           {Then(Io("cap.read") \o With("g_health_lock")              \* 355-361
                 \o Io("time.sleep"), "read"),
            Then(Io("cap.read") \o With("g_health_lock")              \* 355, 363,
                 \o With("g_qos_lock") \o With("g_qos_lock")          \* 350, 378,
                 \o With("g_health_lock"), "face")}                   \* 382
      [] label = "face" ->
           {Then(Io("face.process"), "pose"),                         \* 395-400
            Then(Io("face.process"), "pose_no_feats"),                \* 395, 401
            Then(Io("face.process"), "done"),                         \* 395 raises
            Then(With("g_feat_lock"), "pose")}                        \* 405-406
      [] label \in {"pose", "pose_no_feats"} ->
           LET next == IF label = "pose" THEN "publish" ELSE "no_feats"
           IN  {Then(Io("pose.process"), next),                       \* 412-419
                Then(Io("pose.process"), "done"),                     \* 412 raises
                Then(With("g_metric_lock") \o With("g_feat_lock"),    \* 421-425
                     next)}
      [] label = "no_feats" ->
           {Then(With("g_feat_lock"), "publish")}                     \* 427-430
      [] label = "publish" ->
           {Then(With("g_feat_lock") \o With("g_metric_lock")         \* 433, 436,
                 \o With("g_fused_lock") \o With("g_health_lock")     \* 460, 487,
                 \o With("g_state_lock") \o With("g_health_lock"),    \* 499, 503
                 "commit")}
      [] label = "commit" ->
           {Then(With("g_state_lock"), "qos"), Then(<<>>, "qos")}     \* 549-551
      [] label = "qos" ->
           {Then(With("g_qos_lock") \o Io("time.sleep"), "read"),     \* 570-600
            Then(Io("time.sleep"), "read")}
      [] OTHER -> {}

\* ws_sender, 632-717
SenderProgram(label) ==
    CASE label \in {"start", "loop"} ->
           {Then(With("g_state_lock") \o With("g_qos_lock"), "state")} \* 637-640
      [] label = "state" ->
           {Then(Await("send"), "heartbeat"),                         \* 641-648
            Then(Await("send"), "done"),                              \* 716-717
            Then(<<>>, "heartbeat")}
      [] label = "heartbeat" ->
           {Then(With("g_metric_lock") \o With("g_feat_lock")         \* 652-661
                 \o With("g_fused_lock") \o With("g_health_lock")
                 \o With("g_qos_lock") \o Await("send"), "sleep"),    \* 712
            Then(With("g_metric_lock") \o With("g_feat_lock")
                 \o With("g_fused_lock") \o With("g_health_lock")
                 \o With("g_qos_lock") \o Await("send"), "done"),     \* 716-717
            Then(<<>>, "sleep")}
      [] label = "sleep" ->
           {Then(Await("asyncio.sleep"), "loop")}                     \* 715
      [] OTHER -> {}

\* ws_receiver, 735-824, with collect_phase_samples, 604-613
ReceiverProgram(label) ==
    CASE label \in {"start", "recv"} ->
           {Then(Await("recv"), "cmd"),                               \* 740
            Then(Await("recv"), "done")}                              \* 823-824
      [] label = "cmd" ->
           {Then(With("g_qos_lock") \o Await("send"), "recv"),        \* 803-821
            Then(With("g_qos_lock") \o Await("return"), "done"),      \* 806 raises
            Then(Await("send"), "sampling"),                          \* 769-772
            Then(Await("send"), "recv"),                              \* the other
            Then(Await("send"), "done")}                              \* commands
      [] label = "sampling" ->
           {Then(With("g_metric_lock") \o With("g_feat_lock")         \* 607-613
                 \o Await("asyncio.sleep"), "sampling"),
            Then(Await("send"), "recv")}                              \* 773-783
      [] OTHER -> {}

Program(t, label) ==
    CASE t = "run_pose_detection" -> PipelineProgram(label)
      [] t = "ws_sender" -> SenderProgram(label)
      [] t = "ws_receiver" -> ReceiverProgram(label)

\* The locks a thread or task is inside.
Held(t) == {l \in Locks : lock_owner[l] = t}

\* The thread or task has reached the with statement of a lock that is taken.
Waiting(t) ==
    /\ todo[t] # <<>>
    /\ Head(todo[t]).op = "acquire"
    /\ lock_owner[Head(todo[t]).what] # NULL

\* The event loop executes one task until it awaits; the pipeline thread is
\* scheduled by the operating system.
Scheduled(t) == t \in Tasks => running \in {NULL, t}

\* What the event loop executes after a step of t that is not an await.
RunningAfter(t) == IF t \in Tasks THEN t ELSE running

\* The thread or task reaches a branch and takes one of its ways.
LockBranch(t) ==
    /\ Scheduled(t)
    /\ todo[t] = <<>>
    /\ \E way \in Program(t, at[t]) :
          /\ todo' = [todo EXCEPT ![t] = way.steps]
          /\ at' = [at EXCEPT ![t] = way.next]
    /\ running' = RunningAfter(t)
    /\ UNCHANGED lock_owner
    /\ UNCHANGED <<g_features, g_latest_metric, g_latest_confidence, g_fused_raw,
                   face_lost_streak, pose_lost_streak, g_health_flags,
                   detector_runs, fuse_args>>
    /\ UNCHANGED <<fsm_vars, pipe_vars, hist_vars, ws_vars, qos_vars, calib_vars,
                   cam_vars>>

\* threading.Lock.acquire at the head of a with block: the thread goes on
\* when the lock is free, and stays here while it is not.
LockAcquire(t) ==
    /\ Scheduled(t)
    /\ todo[t] # <<>>
    /\ Head(todo[t]).op = "acquire"
    /\ lock_owner[Head(todo[t]).what] = NULL
    /\ lock_owner' = [lock_owner EXCEPT ![Head(todo[t]).what] = t]
    /\ todo' = [todo EXCEPT ![t] = Tail(@)]
    /\ running' = RunningAfter(t)
    /\ UNCHANGED at
    /\ UNCHANGED <<g_features, g_latest_metric, g_latest_confidence, g_fused_raw,
                   face_lost_streak, pose_lost_streak, g_health_flags,
                   detector_runs, fuse_args>>
    /\ UNCHANGED <<fsm_vars, pipe_vars, hist_vars, ws_vars, qos_vars, calib_vars,
                   cam_vars>>

\* The end of a with block.
LockRelease(t) ==
    /\ Scheduled(t)
    /\ todo[t] # <<>>
    /\ Head(todo[t]).op = "release"
    /\ lock_owner' = [lock_owner EXCEPT ![Head(todo[t]).what] = NULL]
    /\ todo' = [todo EXCEPT ![t] = Tail(@)]
    /\ running' = RunningAfter(t)
    /\ UNCHANGED at
    /\ UNCHANGED <<g_features, g_latest_metric, g_latest_confidence, g_fused_raw,
                   face_lost_streak, pose_lost_streak, g_health_flags,
                   detector_runs, fuse_args>>
    /\ UNCHANGED <<fsm_vars, pipe_vars, hist_vars, ws_vars, qos_vars, calib_vars,
                   cam_vars>>

\* A blocking call of the pipeline thread returns.
LockIo(t) ==
    /\ todo[t] # <<>>
    /\ Head(todo[t]).op = "io"
    /\ todo' = [todo EXCEPT ![t] = Tail(@)]
    /\ UNCHANGED <<lock_owner, at, running>>
    /\ UNCHANGED <<g_features, g_latest_metric, g_latest_confidence, g_fused_raw,
                   face_lost_streak, pose_lost_streak, g_health_flags,
                   detector_runs, fuse_args>>
    /\ UNCHANGED <<fsm_vars, pipe_vars, hist_vars, ws_vars, qos_vars, calib_vars,
                   cam_vars>>

\* A task reaches an await: it is suspended, the event loop is free for any
\* task, and the task goes on when it is executed again.
LockAwait(t) ==
    /\ Scheduled(t)
    /\ todo[t] # <<>>
    /\ Head(todo[t]).op = "await"
    /\ todo' = [todo EXCEPT ![t] = Tail(@)]
    /\ running' = NULL
    /\ UNCHANGED <<lock_owner, at>>
    /\ UNCHANGED <<g_features, g_latest_metric, g_latest_confidence, g_fused_raw,
                   face_lost_streak, pose_lost_streak, g_health_flags,
                   detector_runs, fuse_args>>
    /\ UNCHANGED <<fsm_vars, pipe_vars, hist_vars, ws_vars, qos_vars, calib_vars,
                   cam_vars>>

\* 148-172, 858: load_calibration at the start, with a file at CALIB_PATH
\* that holds the profile data.
LoadCalibration(data) ==
    /\ calib_file = [state |-> "complete", data |-> data]
    /\ g_thresholds = data.thresholds
    /\ g_face_calib = [review |-> data.face_baselines.review,
                       focus |-> data.face_baselines.focus,
                       of |-> data.of]
    /\ load_calibration_cache = data

\* 151-153: there is no file at CALIB_PATH.
NoCalibration ==
    /\ calib_file = [state |-> "absent", data |-> NoProfile]
    /\ g_thresholds = [mid |-> DEFAULT_THRESHOLD_Z,
                       t_focus_in |-> DEFAULT_THRESHOLD_Z - 1000,
                       t_review_in |-> DEFAULT_THRESHOLD_Z + 1000,
                       dwell_ms |-> DEFAULT_TIME_THRESHOLD_MS]
    /\ g_face_calib = [review |-> NoFace, focus |-> NoFace, of |-> 0]
    /\ load_calibration_cache = NoProfile

InitBase ==
    /\ pipe_pc = "init"
    /\ g_current_state = STATE_FOCUS
    /\ g_transition_target = NULL
    /\ g_transition_start_ts = 0 - DwellMax
    /\ g_last_stable_change_ts = 0 - MIN_FLIP_GAP_MS
    /\ g_fused_ema = NoValue
    /\ g_health = [status |-> "OK", camera_error |-> FALSE]
    /\ CONF_MIN = CONF_MIN_DEFAULT
    /\ tick_conf = 0
    /\ since_commit = NoValue
    /\ commit_gap = NoValue
    /\ exc = NoExc
    /\ commit_width = NoValue
    /\ run = NoRun
    /\ lapse = NoLapse
    /\ conn = [c \in Conns |-> "idle"]
    /\ sender_pc = [c \in Conns |-> "idle"]
    /\ s = [c \in Conns |-> NULL]
    /\ last_sent_state = [c \in Conns |-> ""]
    /\ since_hb = [c \in Conns |-> HbIntervalMs]
    /\ hb = [c \in Conns |-> NoHb]
    /\ owed = [c \in Conns |-> FALSE]
    /\ recv_pc = [c \in Conns |-> "idle"]
    /\ inbound = [c \in Conns |-> NoMsg]
    /\ reply = [c \in Conns |-> NULL]
    /\ phase_values = [c \in Conns |-> NoPhases]
    /\ g_cam_switch_request = NoValue
    /\ g_qos = [proc_scale |-> PROC_SCALE_DEFAULT,
                fd_stride |-> FD_STRIDE_DEFAULT,
                pose_stride |-> POSE_STRIDE_DEFAULT,
                avg_ms |-> FRAME_BUDGET_MS(TARGET_FPS_DEFAULT),
                overload |-> FALSE,
                hb_interval |-> 1000 \div HB_BASE_HZ,
                cpu_pct |-> NoValue]
    /\ since_qos = QoS_ADJUST_PERIOD
    /\ TARGET_FPS = TARGET_FPS_DEFAULT
    /\ down_run = 0
    /\ saves = 0
    /\ used = [z |-> 0, face |-> 0]
    /\ g_cam_index = 0
    /\ current_cam = NoValue
    /\ g_features = NoFeatures
    /\ g_latest_metric = NoValue
    /\ g_latest_confidence = 0
    /\ g_fused_raw = NoValue
    /\ face_lost_streak = 0
    /\ pose_lost_streak = 0
    /\ g_health_flags = NoFlags
    /\ detector_runs = NoRuns
    /\ lock_owner = [l \in Locks |-> NULL]
    /\ todo = [t \in Threads |-> <<>>]
    /\ at = [t \in Threads |-> "start"]
    /\ running = NULL

\* The program started without a calibration file.
InitProgram == InitBase /\ NoCalibration /\ fuse_args = NoArgs

\* The state machine, the health record and the sender read nothing of the
\* QoS record that the controller writes, and the controller reads nothing
\* of theirs: the specifications of the state machine and of the websocket
\* tasks follow the frames up to line 552 and leave the QoS record as it is.

Next ==
    \/ \E opened \in BOOLEAN : PipelineStart(opened)
    \/ \E dt \in TickSteps, fused_ema \in EmaLevels \cup {NoValue},
          overall_conf \in ConfLevels, paused \in BOOLEAN :
          PipelineFrame(dt, fused_ema, overall_conf, paused, FALSE) /\ UNCHANGED <<qos_vars, sense_vars>>

\* The pipeline alone, with the history of its commits.
Init == InitProgram /\ observe = {"commit"}
Spec == Init /\ [][Next]_vars

\* The pipeline alone, with the history of the excursions of its input.
InitExcursion == InitProgram /\ observe = {"exc"}
SpecExcursion == InitExcursion /\ [][Next]_vars

\* The pipeline alone, with the history of its runs of steady input.
InitSteady == InitProgram /\ observe = {"run"}
SpecSteady == InitSteady /\ [][Next]_vars

\* The pipeline and the sender of one connection.  The frames here come one
\* frame period apart, confident and healthy, with m at 0.35 or 0.7.
InitSender == InitProgram /\ observe = {}
NextSender ==
    \/ \E opened \in BOOLEAN : PipelineStart(opened)
    \/ \E fused_ema \in {350, 700} :
          PipelineFrame(FrameMs, fused_ema, 900, FALSE, FALSE) /\ UNCHANGED <<qos_vars, sense_vars>>
    \/ Connect("c1")
    \/ SenderPoll("c1")
    \/ SenderSendState("c1")
    \/ SenderHeartbeat("c1")
    \/ ClientClose("c1")
    \/ SenderReturns("c1")
    \/ HandlerReap("c1")
SpecSender == InitSender /\ [][NextSender]_vars

\* The receiver of one connection and its handler, the pipeline not running.
InitReceiver == InitProgram /\ observe = {}
NextReceiver ==
    \/ Connect("c1")
    \/ \E msg \in InboundMessages, idx \in CamIndices, cam_ok \in BOOLEAN,
          phase \in Phases, value \in SetConfValues, data \in QosOverrides :
          Receive("c1", msg, idx, cam_ok, phase, value, data)
    \/ \E res \in PhaseResults({DEFAULT_THRESHOLD_Z}, {NoFace}) \cup {NoRes} :
          SamplingDone("c1", res)
    \/ \E written \in BOOLEAN : SaveCalibration("c1", written)
    \/ Publish("c1")
    \/ ClientClose("c1")
    \/ ReceiverReturns("c1")
    \/ HandlerReap("c1")
SpecReceiver == InitReceiver /\ [][NextReceiver]_vars

\* Two connections with their handlers and the pipeline.  A handler whose
\* wait (831) is satisfied is resumed by the event loop.
InitHandler == InitProgram /\ observe = {}
NextHandler ==
    \/ \E opened \in BOOLEAN : PipelineStart(opened)
    \/ \E fused_ema \in {350, 700} :
          PipelineFrame(MaxTickMs, fused_ema, 900, FALSE, FALSE) /\ UNCHANGED <<qos_vars, sense_vars>>
    \/ \E c \in Conns :
          \/ Connect(c)
          \/ \E msg \in {m \in InboundMessages : m.cmd \in OtherMessages} :
                Receive(c, msg, 0, FALSE, "FOCUS", CONF_MIN_DEFAULT, NoOverride)
          \/ ClientClose(c)
          \/ SenderReturns(c)
          \/ ReceiverReturns(c)
          \/ HandlerReap(c)
SpecHandler ==
    /\ InitHandler /\ [][NextHandler]_vars
    /\ \A c \in Conns : WF_vars(HandlerReap(c))

\* The QoS controller under every load, with a client that sends set_qos.
\* avg_ms takes values on either side of, and on, the two thresholds of the
\* default budget (42.5 ms and 55 ms).
AvgLevels == {400, 425, 550, ScenarioAvgMs}
CpuLevels == {NoValue, CPU_OVERLOAD}
QosTickMs == QoS_ADJUST_PERIOD \div 2
InitQos == InitProgram /\ observe = {"qos"}
NextQos ==
    \/ \E opened \in BOOLEAN : PipelineStart(opened)
    \/ \E avg_ms \in AvgLevels, cpu_pct \in CpuLevels :
          PipelineTick(QosTickMs, 700, 900, FALSE, FALSE, avg_ms, cpu_pct)
          /\ UNCHANGED sense_vars
    \/ Connect("c1")
    \/ \E arg \in {"numeric", "non_numeric"}, data \in QosOverrides :
          Receive("c1", [cmd |-> "set_qos", arg |-> arg], 0, FALSE, "FOCUS",
                  CONF_MIN_DEFAULT, data)
SpecQos == InitQos /\ [][NextQos]_vars

\* Calibration over two connections, with the pipeline running.
CalibMeans == {0 - 30000}
CalibFaces == {[eye_dist |-> 60, bbox_area |-> 40]}
InitCalib == InitProgram /\ observe = {"calib"}
NextCalib ==
    \/ \E opened \in BOOLEAN : PipelineStart(opened)
    \/ PipelineFrame(MaxTickMs, 700, 900, FALSE, FALSE) /\ UNCHANGED <<qos_vars, sense_vars>>
    \/ \E c \in Conns :
          \/ Connect(c)
          \/ \E phase \in Phases :
                Receive(c, [cmd |-> "calibrate_phase", arg |-> "numeric"], 0, FALSE,
                        phase, CONF_MIN_DEFAULT, NoOverride)
          \/ Receive(c, [cmd |-> "calibrate_finalize", arg |-> NULL], 0, FALSE,
                     "FOCUS", CONF_MIN_DEFAULT, NoOverride)
          \/ \E res \in PhaseResults(CalibMeans, CalibFaces) \cup {NoRes} :
                SamplingDone(c, res)
          \/ \E written \in BOOLEAN : SaveCalibration(c, written)
          \/ Publish(c)
SpecCalib == InitCalib /\ [][NextCalib]_vars

\* The camera: the pipeline starts, with the device opening or not, and
\* runs; a client lists the cameras and asks to switch.
InitCamera == InitProgram /\ observe = {}
NextCamera ==
    \/ \E opened \in BOOLEAN : PipelineStart(opened)
    \/ \E fused_ema \in {350, 700} :
          PipelineFrame(MaxTickMs, fused_ema, 900, FALSE, FALSE) /\ UNCHANGED <<qos_vars, sense_vars>>
    \/ Connect("c1")
    \/ \E msg \in {m \in InboundMessages : m.cmd \in {"cameras", "switch_camera"}},
          idx \in CamIndices, cam_ok \in BOOLEAN :
          Receive("c1", msg, idx, cam_ok, "FOCUS", CONF_MIN_DEFAULT, NoOverride)
    \/ HandlerReap("c1")
SpecCamera == InitCamera /\ [][NextCamera]_vars

\* The thresholds of every pair of means: one connection that calibrates
\* with means that lie less than 4.0 apart (the floor of the band), between
\* 4.0 and 15.0 apart, and more than 15.0 apart (its ceiling).
ThresholdMeans ==
    {0 - 30000, 0 - 29900, 0 - 28000, 0 - 26000, 0 - 24100, 0 - 15000, 0 - 14900,
     5000}
InitThresholds == InitProgram /\ observe = {}
NextThresholds ==
    \/ Connect("c1")
    \/ \E phase \in Phases :
          Receive("c1", [cmd |-> "calibrate_phase", arg |-> "numeric"], 0, FALSE,
                  phase, CONF_MIN_DEFAULT, NoOverride)
    \/ Receive("c1", [cmd |-> "calibrate_finalize", arg |-> NULL], 0, FALSE,
               "FOCUS", CONF_MIN_DEFAULT, NoOverride)
    \/ \E res \in PhaseResults(ThresholdMeans, {NoFace}) : SamplingDone("c1", res)
    \/ SaveCalibration("c1", TRUE)
    \/ Publish("c1")
SpecThresholds == InitThresholds /\ [][NextThresholds]_vars

(***************************************************************************)
(* Properties of the posture state machine.                                 *)
(***************************************************************************)
\* A timestamp that no assignment touched in a step: it only aged.
Aged(ts_after, ts_before, keep_ms) ==
    \E dt \in TickSteps \cup {0} : ts_after = Older(ts_before, dt, keep_ms)

\* The last frame was processed and the state machine evaluated on it.
Evaluated == g_health.status # "PAUSED" /\ g_fused_ema # NoValue

\* C1: between two consecutive commits of a stable state at least
\* min_flip_gap ms elapse, so a flip requested 800 ms after a commit does not
\* commit inside the 1500 ms window.
ClaimC1 == commit_gap # NoValue => commit_gap >= MIN_FLIP_GAP_MS

\* Two commits have happened, and a further valid flip is being requested
\* at least 800 ms after the last one and inside its window: nothing started.
WitnessC1 ==
    /\ commit_gap # NoValue
    /\ since_commit >= 800 /\ since_commit < MIN_FLIP_GAP_MS
    /\ g_current_state \in StableStates /\ g_transition_target = NULL
    /\ Evaluated /\ Beyond(g_current_state, g_fused_ema)
    /\ tick_conf >= CONF_MIN

\* C2: on a tick where health.status is PAUSED or the EMA is null the posture
\* state, transition_target, transition_start_ts and last_stable_change_ts
\* are left as they were.
ClaimC2 ==
    [][(g_health'.status = "PAUSED" \/ g_fused_ema' = NoValue) =>
        /\ g_current_state' = g_current_state
        /\ g_transition_target' = g_transition_target
        /\ Aged(g_transition_start_ts', g_transition_start_ts, DwellMax)
        /\ Aged(g_last_stable_change_ts', g_last_stable_change_ts, MIN_FLIP_GAP_MS)
      ]_vars

\* A PAUSED frame arrived when the commit of REVIEW was due: the dwell has
\* elapsed, m is at or below low, the frame is confident.
WitnessC2 ==
    /\ g_health.status = "PAUSED" /\ ~g_health.camera_error
    /\ g_current_state = STATE_TRANSITION_TO_REVIEW
    /\ g_transition_start_ts <= 0 - FUSED_DWELL_REVIEW_MS
    /\ g_fused_ema # NoValue /\ g_fused_ema <= FUSED_T_REVIEW_IN
    /\ tick_conf >= CONF_MIN

\* C3: a commit that follows a single excursion of the input follows one of
\* width >= min(dwell_review, dwell_focus): a single shorter excursion never
\* commits, whatever the frames' timing, confidence and health.
ClaimC3 ==
    commit_width # NoValue =>
        commit_width >= Min(FUSED_DWELL_REVIEW_MS, FUSED_DWELL_FOCUS_MS)

\* REVIEW has just been committed after a single excursion of the input.
WitnessC3 ==
    /\ commit_width # NoValue
    /\ exc = NoExc
    /\ g_last_stable_change_ts = 0
    /\ g_current_state = STATE_REVIEW

\* C4 as claimed: once the input has been m > high, confident and not PAUSED
\* for dwell_focus + min_flip_gap ms, the state is FOCUS.
ClaimC4_AsClaimed ==
    (/\ run.ms # NoValue
     /\ GoodFrame(g_fused_ema, tick_conf, CONF_MIN, g_health.status)
     /\ run.ms >= FUSED_DWELL_FOCUS_MS + MIN_FLIP_GAP_MS)
    => g_current_state = STATE_FOCUS

\* C4, amended: once the input has been m > high, confident and not PAUSED
\* for dwell_focus + min_flip_gap ms and two frame periods more, the state
\* is FOCUS, and it stays FOCUS while that input continues.
ClaimC4 ==
    (/\ run.ms # NoValue
     /\ GoodFrame(g_fused_ema, tick_conf, CONF_MIN, g_health.status)
     /\ run.ms >= SettleMs)
    => g_current_state = STATE_FOCUS

\* Such a run that began in REVIEW has lasted that long.
WitnessC4 ==
    /\ run.ms # NoValue /\ run.ms >= SettleMs
    /\ run.from = STATE_REVIEW
    /\ GoodFrame(g_fused_ema, tick_conf, CONF_MIN, g_health.status)
    /\ g_current_state = STATE_FOCUS

\* C5: from a stable state no transition is started by a frame with
\* overall_conf < conf_min: the state and the null transition_target stay.
ClaimC5 ==
    [][(g_current_state \in StableStates /\ tick_conf' < CONF_MIN') =>
        /\ g_current_state' = g_current_state
        /\ g_transition_target' = NULL
      ]_vars

\* ema = 0.3 with overall_conf = 0.4 on every frame for 2 s, healthy, the flip
\* gap elapsed: still FOCUS.
WitnessC5 ==
    /\ run.ms # NoValue /\ run.ms >= 2000
    /\ g_fused_ema = 300 /\ tick_conf = 400
    /\ g_health.status = "OK"
    /\ g_last_stable_change_ts <= 0 - MIN_FLIP_GAP_MS
    /\ g_current_state = STATE_FOCUS /\ g_transition_target = NULL

\* C6: a transition is aborted on the evaluated frame whose m is back over
\* the threshold; an abort clears transition_target and leaves
\* last_stable_change_ts alone; REVIEW is committed only from a transition
\* that has lasted the dwell.
ClaimC6 ==
    [][/\ (/\ g_current_state = STATE_TRANSITION_TO_REVIEW
           /\ g_health'.status # "PAUSED" /\ g_fused_ema' # NoValue
           /\ g_fused_ema' > FUSED_T_REVIEW_IN)
          => g_current_state' = STATE_FOCUS
       /\ (/\ g_current_state \in TransitionStates
           /\ g_current_state' = Side(g_current_state))
          => /\ g_transition_target' = NULL
             /\ Aged(g_last_stable_change_ts', g_last_stable_change_ts,
                     MIN_FLIP_GAP_MS)
       /\ (Side(g_current_state) = STATE_FOCUS /\ g_current_state' = STATE_REVIEW)
          => /\ g_current_state = STATE_TRANSITION_TO_REVIEW
             /\ g_transition_start_ts' <= 0 - FUSED_DWELL_REVIEW_MS
      ]_vars

\* From FOCUS m was at 0.35 with confidence 0.9 for 600 ms and is back at
\* 0.55: FOCUS, nothing pending, no commit ever made.
WitnessC6 ==
    /\ g_current_state = STATE_FOCUS /\ g_transition_target = NULL
    /\ g_transition_start_ts = 0 - 600
    /\ exc.n = 1 /\ ~exc.open
    /\ g_fused_ema = 550 /\ tick_conf = 900 /\ g_health.status = "OK"
    /\ g_last_stable_change_ts = 0 - MIN_FLIP_GAP_MS

\* C7: in REVIEW with nothing pending and the flip gap elapsed, a confident,
\* healthy frame with m >= high starts TRANSITION_TO_FOCUS at once; further
\* such frames commit FOCUS on the first one that finds 750 ms elapsed since
\* the start, and keep TRANSITION_TO_FOCUS before.
ClaimC7 ==
    [][LET good == /\ g_health'.status # "PAUSED"
                   /\ g_fused_ema' # NoValue /\ g_fused_ema' >= FUSED_T_FOCUS_IN
                   /\ tick_conf' >= CONF_MIN'
       IN  /\ (/\ g_current_state = STATE_REVIEW /\ g_transition_target = NULL
               /\ g_last_stable_change_ts' <= 0 - MIN_FLIP_GAP_MS
               /\ good)
              => /\ g_current_state' = STATE_TRANSITION_TO_FOCUS
                 /\ g_transition_target' = "FOCUS"
                 /\ g_transition_start_ts' = 0
           /\ (g_current_state = STATE_TRANSITION_TO_FOCUS /\ good)
              => IF g_transition_start_ts' <= 0 - FUSED_DWELL_FOCUS_MS
                 THEN g_current_state' = STATE_FOCUS /\ g_last_stable_change_ts' = 0
                 ELSE g_current_state' = STATE_TRANSITION_TO_FOCUS
      ]_vars

\* ema = 0.7 with confidence 0.9 on every frame since REVIEW: FOCUS has just
\* been committed, 750 ms after the transition started on the first frame.
WitnessC7 ==
    /\ run.from = STATE_REVIEW /\ run.ms = FUSED_DWELL_FOCUS_MS
    /\ g_fused_ema = 700 /\ tick_conf = 900
    /\ g_current_state = STATE_FOCUS
    /\ g_last_stable_change_ts = 0
    /\ g_transition_start_ts = 0 - FUSED_DWELL_FOCUS_MS

(***************************************************************************)
(* Properties of the connection's tasks.                                    *)
(***************************************************************************)
\* The transition_target the state machine holds in a posture state.
TargetIn(st) ==
    IF st = STATE_TRANSITION_TO_REVIEW THEN "REVIEW"
    ELSE IF st = STATE_TRANSITION_TO_FOCUS THEN "FOCUS" ELSE NULL

\* The step sends a heartbeat on connection c.
HeartbeatSent(c) == since_hb'[c] = 0 /\ since_hb[c] # 0

\* Connection c is closed.
Closed(c) == conn[c] \in {"closed_by_client", "closed_by_server"}

\* Everything that belongs to connection c.
ConnState(c) ==
    <<conn[c], sender_pc[c], s[c], last_sent_state[c], since_hb[c], hb[c],
      owed[c], recv_pc[c], inbound[c], reply[c], phase_values[c]>>

\* The acks that report an error of the command.
ErrorAcks == {"ack_set_conf_min_error"}

\* C8: every change of the posture state on an open connection results in a
\* state message carrying the new state: the pipeline leaves a state that is
\* owed its message only when the sender has read it and is about to send it.
ClaimC8 ==
    [][\A c \in Conns :
        (owed[c] /\ g_current_state' # g_current_state) =>
            (sender_pc[c] = "send_state" /\ s[c] = g_current_state)
      ]_vars

\* C9: no heartbeat is sent that reflects a change of state whose state
\* message has not been sent: the transition block of every heartbeat has
\* the target of the state announced last.
ClaimC9 ==
    [][\A c \in Conns :
        HeartbeatSent(c) => hb'[c].target = TargetIn(last_sent_state[c])
      ]_vars

\* C10: no inbound message ends the receiver or closes the connection, and a
\* command whose argument is not a number is answered with an error ack.
ClaimC10 ==
    \A c \in Conns :
        (inbound[c] # NoMsg /\ conn[c] \notin {"peer_closed", "closed_by_client"}) =>
            /\ recv_pc[c] # "failed"
            /\ conn[c] = "open"
            /\ inbound[c].arg = "non_numeric" => reply[c] \in ErrorAcks

\* C11: when the sender or the receiver of a connection finishes (it
\* returns or an exception ends it), the handler cancels the other task and
\* returns, closing the connection; no task of that connection runs on; the
\* other connections and the pipeline are left as they are.
ClaimC11 ==
    /\ [](\A c \in Conns :
            Closed(c) => sender_pc[c] \in Ended /\ recv_pc[c] \in Ended)
    /\ [][\A c \in Conns :
            (~Closed(c) /\ Closed(c)') =>
                /\ sender_pc[c] \in Finished \/ recv_pc[c] \in Finished
                /\ sender_pc[c] \notin Ended => sender_pc'[c] = "cancelled"
                /\ recv_pc[c] \notin Ended => recv_pc'[c] = "cancelled"
                /\ \A d \in Conns \ {c} : ConnState(d)' = ConnState(d)
                /\ UNCHANGED <<fsm_vars, pipe_vars, qos_vars>>
         ]_vars
    /\ \A c \in Conns :
          (sender_pc[c] \in Finished \/ recv_pc[c] \in Finished) ~> Closed(c)

\* An exception ended the receiver of c1 and its sender was cancelled; the
\* tasks of c2 and the pipeline run on.
WitnessC11 ==
    /\ conn["c1"] = "closed_by_server"
    /\ recv_pc["c1"] = "failed" /\ sender_pc["c1"] = "cancelled"
    /\ conn["c2"] = "open"
    /\ sender_pc["c2"] = "poll" /\ recv_pc["c2"] = "wait"
    /\ pipe_pc = "loop" /\ g_fused_ema # NoValue

(***************************************************************************)
(* Properties of the QoS controller.                                        *)
(***************************************************************************)
\* The three knobs of a QoS record.
Knobs(q) == <<q.pose_stride, q.fd_stride, q.proc_scale>>

\* C12: whatever the controller and the set_qos commands do, in whatever
\* order, proc_scale stays in [0.55, 0.90], fd_stride in [1, 4] and
\* pose_stride in [1, 3].
ClaimC12 ==
    /\ g_qos.proc_scale \in PROC_SCALE_MIN..PROC_SCALE_MAX
    /\ g_qos.fd_stride \in FD_STRIDE_MIN..FD_STRIDE_MAX
    /\ g_qos.pose_stride \in POSE_STRIDE_MIN..POSE_STRIDE_MAX

\* A set_qos command has been acknowledged, and the controller has since
\* adjusted under overload with every knob at the bound of least work.
WitnessC12 ==
    /\ reply["c1"] = "ack_set_qos"
    /\ since_qos = 0 /\ g_qos.overload
    /\ Knobs(g_qos) = <<POSE_STRIDE_MAX, FD_STRIDE_MAX, PROC_SCALE_MIN>>

\* C13: a frame less than 1 s after the last adjustment adjusts nothing.
\* An adjustment changes at most one knob, by at most one step: under
\* overload or with cpu_pct >= 85, the first of pose_stride (+1),
\* fd_stride (+1), proc_scale (-0.05, not below its bound) that is not at
\* its bound; otherwise, with avg_ms below 0.85 of the frame budget, the
\* first of proc_scale (+0.03, not above its bound), fd_stride (-1),
\* pose_stride (-1) that is not at its bound; otherwise none.
ClaimC13 ==
    [][since_qos' # since_qos =>
        LET q == g_qos
            after == g_qos'
            budget == FRAME_BUDGET_MS(TARGET_FPS)
            changed == {i \in 1..3 : Knobs(after)[i] # Knobs(q)[i]}
        IN  IF since_qos' # 0 THEN after = q
            ELSE /\ Cardinality(changed) <= 1
                 /\ IF after.overload
                       \/ (after.cpu_pct # NoValue /\ after.cpu_pct >= CPU_OVERLOAD)
                    THEN Knobs(after) =
                           IF q.pose_stride < POSE_STRIDE_MAX
                           THEN <<q.pose_stride + 1, q.fd_stride, q.proc_scale>>
                           ELSE IF q.fd_stride < FD_STRIDE_MAX
                           THEN <<q.pose_stride, q.fd_stride + 1, q.proc_scale>>
                           ELSE <<q.pose_stride, q.fd_stride,
                                  Max(PROC_SCALE_MIN, q.proc_scale - PROC_SCALE_DOWN)>>
                    ELSE IF after.avg_ms * 100 < budget * OVERLOAD_CLEAR
                    THEN Knobs(after) =
                           IF q.proc_scale < PROC_SCALE_MAX
                           THEN <<q.pose_stride, q.fd_stride,
                                  Min(PROC_SCALE_MAX, q.proc_scale + PROC_SCALE_UP)>>
                           ELSE IF q.fd_stride > FD_STRIDE_MIN
                           THEN <<q.pose_stride, q.fd_stride - 1, q.proc_scale>>
                           ELSE <<Max(POSE_STRIDE_MIN, q.pose_stride - 1),
                                  q.fd_stride, q.proc_scale>>
                    ELSE Knobs(after) = Knobs(q)
    ]_vars

\* The controller has just adjusted with frames well within the budget and
\* an idle CPU, and has brought the last knob to the bound of most work.
WitnessC13 ==
    /\ since_qos = 0 /\ ~g_qos.overload /\ g_qos.cpu_pct = NoValue
    /\ g_qos.avg_ms * 100 < FRAME_BUDGET_MS(TARGET_FPS) * OVERLOAD_CLEAR
    /\ Knobs(g_qos) = <<POSE_STRIDE_MIN, FD_STRIDE_MIN, PROC_SCALE_MAX>>
    /\ reply["c1"] = NULL

\* C14 as the claim states it: from the defaults, with frames that average
\* 80 ms against the budget of 50 ms and no set_qos, the first three
\* adjustments are pose_stride 2 -> 3, fd_stride 2 -> 3, proc_scale
\* 0.75 -> 0.70.
ClaimC14_AsClaimed ==
    /\ down_run = 1 =>
          Knobs(g_qos) = <<POSE_STRIDE_DEFAULT + 1, FD_STRIDE_DEFAULT, PROC_SCALE_DEFAULT>>
    /\ down_run = 2 =>
          Knobs(g_qos) = <<POSE_STRIDE_DEFAULT + 1, FD_STRIDE_DEFAULT + 1, PROC_SCALE_DEFAULT>>
    /\ down_run = 3 =>
          Knobs(g_qos) = <<POSE_STRIDE_DEFAULT + 1, FD_STRIDE_DEFAULT + 1,
                           PROC_SCALE_DEFAULT - PROC_SCALE_DOWN>>

\* C14, amended: from the defaults, with frames that average 80 ms against
\* the budget of 50 ms and no set_qos, the first three adjustments are
\* pose_stride 2 -> 3, fd_stride 2 -> 3, fd_stride 3 -> 4; proc_scale is
\* still 0.75 then, and the fourth adjustment takes it to 0.70.
ClaimC14 ==
    /\ down_run = 1 =>
          Knobs(g_qos) = <<POSE_STRIDE_DEFAULT + 1, FD_STRIDE_DEFAULT, PROC_SCALE_DEFAULT>>
    /\ down_run = 2 =>
          Knobs(g_qos) = <<POSE_STRIDE_DEFAULT + 1, FD_STRIDE_DEFAULT + 1, PROC_SCALE_DEFAULT>>
    /\ down_run = 3 =>
          Knobs(g_qos) = <<POSE_STRIDE_DEFAULT + 1, FD_STRIDE_DEFAULT + 2, PROC_SCALE_DEFAULT>>
    /\ down_run = 4 =>
          Knobs(g_qos) = <<POSE_STRIDE_DEFAULT + 1, FD_STRIDE_DEFAULT + 2,
                           PROC_SCALE_DEFAULT - PROC_SCALE_DOWN>>

\* The third overloaded adjustment in a row has just been made.
WitnessC14 ==
    /\ down_run = 3 /\ since_qos = 0
    /\ g_qos.overload /\ g_qos.avg_ms = ScenarioAvgMs

(***************************************************************************)
(* Properties of the calibration.                                           *)
(***************************************************************************)
\* The places a profile is kept in.
CalibStores == <<calib_file, g_thresholds, g_face_calib, load_calibration_cache>>

\* Connection c holds an ok result of the REVIEW phase and of the FOCUS phase.
HasBoth(c) ==
    /\ phase_values[c]["REVIEW"] \in PhaseResults(CalibMeans, CalibFaces)
    /\ phase_values[c]["FOCUS"] \in PhaseResults(CalibMeans, CalibFaces)

\* C15: a receiver saves, publishes and sends calib_done only when its own
\* connection holds an ok result of both phases; a calibrate_finalize on a
\* connection that does not is answered with the error missing_phase and
\* leaves the file, the thresholds, the face baselines and the cached
\* profile as they are.
ClaimC15 ==
    [][\A c \in Conns :
        /\ (CalibStores' # CalibStores /\ recv_pc'[c] # recv_pc[c]) => HasBoth(c)
        /\ CalibStores' # CalibStores => \E d \in Conns : recv_pc'[d] # recv_pc[d]
        /\ (reply'[c] = "calib_done" /\ reply[c] # "calib_done") =>
              HasBoth(c) /\ load_calibration_cache' = calib_file.data
        /\ ( /\ inbound'[c].cmd = "calibrate_finalize"
             /\ <<inbound[c], reply[c]>>' # <<inbound[c], reply[c]>>
             /\ recv_pc[c] = "wait"
             /\ ~HasBoth(c) ) =>
              /\ reply'[c] = "calib_status_error_missing_phase"
              /\ CalibStores' = CalibStores
      ]_vars

\* c1 has calibrated both phases and got calib_done; c2, which holds the
\* REVIEW phase only, has asked to finalize and got the error.
WitnessC15 ==
    /\ reply["c1"] = "calib_done" /\ load_calibration_cache.of = 1
    /\ inbound["c2"].cmd = "calibrate_finalize"
    /\ reply["c2"] = "calib_status_error_missing_phase"
    /\ phase_values["c2"]["REVIEW"].ok /\ ~phase_values["c2"]["FOCUS"].ok
    /\ calib_file.state = "complete" /\ calib_file.data.of = 1

\* C16: a frame that takes its z anchors from a profile and its face
\* baselines from a profile takes them from the same profile.
ClaimC16 == (used.z # 0 /\ used.face # 0) => used.z = used.face

\* C17: the calibration file is never empty or partly written: it is
\* absent (before the first profile) or holds a complete profile.
ClaimC17 == calib_file.state \in {"absent", "complete"}

\* C18: the thresholds saved for the means r and f are mid = (r + f) / 2,
\* band = 0.2 * |r - f| kept within [0.8, 3.0], t_focus_in = mid - band / 2
\* and t_review_in = mid + band / 2, so that t_focus_in < t_review_in and
\* they lie between 0.8 and 3.0 apart; for r = -30.0 and f = -28.0 they are
\* mid = -29.0, t_focus_in = -29.4, t_review_in = -28.6 (band 0.8).
ClaimC18 ==
    calib_file.state = "complete" =>
        LET r == calib_file.data.review_mean
            f == calib_file.data.focus_mean
            t == calib_file.data.thresholds
            gap == IF r < f THEN f - r ELSE r - f
            band == t.t_review_in - t.t_focus_in
        IN  /\ 2 * t.mid = r + f
            /\ IF gap < 5 * BAND_MIN THEN band = BAND_MIN
               ELSE IF gap > 5 * BAND_MAX THEN band = BAND_MAX
               ELSE 5 * band = gap
            /\ 2 * (t.mid - t.t_focus_in) = band
            /\ 2 * (t.t_review_in - t.mid) = band
            /\ t.t_focus_in < t.t_review_in
            /\ band \in BAND_MIN..BAND_MAX
            /\ g_thresholds = t
            /\ (r = 0 - 30000 /\ f = 0 - 28000) =>
                  /\ t.mid = 0 - 29000 /\ band = 800
                  /\ t.t_focus_in = 0 - 29400 /\ t.t_review_in = 0 - 28600

\* The profile for the means -30.0 and -28.0 has been saved and published.
WitnessC18 ==
    /\ calib_file.state = "complete"
    /\ calib_file.data.review_mean = 0 - 30000
    /\ calib_file.data.focus_mean = 0 - 28000
    /\ load_calibration_cache = calib_file.data
    /\ reply["c1"] = "calib_done"

(***************************************************************************)
(* Properties of the camera.                                                *)
(***************************************************************************)
\* C19: once switch_camera for index i has been acknowledged with ok, the
\* next frame the pipeline processes comes from device i, which is then the
\* current camera index that is reported; or else the reopening failed and
\* camera_error is set with the status PAUSED.
ClaimC19 ==
    [][(/\ pipe_pc = "loop"
        /\ g_cam_switch_request # NoValue
        /\ g_fused_ema' # g_fused_ema) =>
            \/ current_cam' = g_cam_switch_request /\ g_cam_index' = g_cam_switch_request
            \/ g_health'.camera_error /\ g_health'.status = "PAUSED"
      ]_vars

\* C20: whenever camera_error is set, the status is PAUSED and the pipeline
\* is in its frame loop, trying again at every tick.
ClaimC20 ==
    g_health.camera_error => g_health.status = "PAUSED" /\ pipe_pc = "loop"

(***************************************************************************)
(* Properties of transition_target.                                         *)
(***************************************************************************)
\* A step that commits a stable state: the posture changes sides.
Commits ==
    /\ g_current_state' \in StableStates
    /\ g_current_state' # Side(g_current_state)

\* C26: after every pipeline tick transition_target and the posture state
\* agree (REVIEW in TRANSITION_TO_REVIEW, FOCUS in TRANSITION_TO_FOCUS, null
\* in FOCUS and REVIEW), and every commit of a stable state is made from
\* the TRANSITION_* state of that stable state.
ClaimC26 ==
    /\ g_transition_target = TargetIn(g_current_state)
    /\ [][/\ g_transition_target' = TargetIn(g_current_state')
          /\ Commits => g_transition_target = g_current_state'
      ]_vars

\* REVIEW has just been committed, from TRANSITION_TO_REVIEW after a FOCUS
\* that had itself been committed: both transitions have been gone through.
WitnessC26 ==
    /\ g_current_state = STATE_REVIEW
    /\ g_transition_target = NULL
    /\ since_commit = 0
    /\ commit_gap # NoValue

(***************************************************************************)
(* Properties of the dwell.                                                 *)
(***************************************************************************)
\* C27 as claimed: when a stable state is committed from a TRANSITION_*
\* state, the threshold condition and overall_conf >= conf_min held on every
\* processed frame since the transition started, the PAUSED ones included.
ClaimC27_AsClaimed == [][Commits => ~lapse'.any]_vars

\* C27: when a stable state is committed from a TRANSITION_* state, the
\* threshold condition (m <= low for REVIEW, m >= high for FOCUS) and
\* overall_conf >= conf_min held on every frame since the transition started
\* on which the state machine was evaluated; and a frame with the status
\* PAUSED inside a transition leaves the state, the target and the start of
\* the transition as they were, whatever its input.
ClaimC27 ==
    [][/\ Commits => ~lapse'.evaluated
       /\ (g_current_state \in TransitionStates /\ g_health'.status = "PAUSED") =>
              /\ g_current_state' = g_current_state
              /\ g_transition_target' = g_transition_target
              /\ Aged(g_transition_start_ts', g_transition_start_ts, DwellMax)
      ]_vars

\* REVIEW has just been committed from a transition that had a PAUSED frame
\* whose input did not meet the condition.
WitnessC27 ==
    /\ g_current_state = STATE_REVIEW
    /\ g_last_stable_change_ts = 0
    /\ lapse.paused /\ lapse.any /\ ~lapse.evaluated

\* The pipeline alone, with the history of the frames of its transitions.
InitDwell == InitProgram /\ observe = {"lapse"}
SpecDwell == InitDwell /\ [][Next]_vars

(***************************************************************************)
(* Properties of a failed calibration phase.                                *)
(***************************************************************************)
\* C25: the step that ends the sampling of a calibrate_phase with
\* insufficient_samples sends one calib_status error after the calib_status
\* sampling and nothing else for the command (the receiver waits for the
\* next message), and leaves the connection's results of both phases as they
\* were; a later calibrate_finalize builds the profile from the results held.
ClaimC25 ==
    [][\A c \in Conns :
        /\ (recv_pc[c] = "sampling" /\ recv_pc'[c] # "sampling"
            /\ reply'[c] # "calib_result_phase" /\ conn'[c] = "open") =>
              /\ reply[c] = "calib_status_sampling"
              /\ reply'[c] = "calib_status_error_insufficient_samples"
              /\ recv_pc'[c] = "wait"
              /\ phase_values'[c] = phase_values[c]
        /\ (reply[c] = "calib_status_error_insufficient_samples"
            /\ reply'[c] # reply[c]) =>
              recv_pc[c] = "wait" /\ inbound'[c] # NoMsg
        /\ (recv_pc[c] = "saving" /\ recv_pc'[c] = "publishing") =>
              /\ calib_file'.data.review_mean = phase_values[c]["REVIEW"].mean
              /\ calib_file'.data.focus_mean = phase_values[c]["FOCUS"].mean
              /\ phase_values[c]["REVIEW"].ok /\ phase_values[c]["FOCUS"].ok
      ]_vars

\* A calibrate_phase has just failed with insufficient_samples on a
\* connection that holds an earlier successful result of the same phase and
\* one of the other phase.
WitnessC25 ==
    /\ reply["c1"] = "calib_status_error_insufficient_samples"
    /\ inbound["c1"].cmd = "calibrate_phase"
    /\ recv_pc["c1"] = "wait"
    /\ BothPhases("c1")

(***************************************************************************)
(* The pipeline with what its frames sense: the detectors' runs, the        *)
(* features and the health flags.  Either the runs of one detector are      *)
(* followed, on well lit frames on which the other detector finds its       *)
(* object; or both detectors find theirs on every frame, the frames vary in *)
(* what else sets the flags, and the program has started with the           *)
(* calibration file of HealthProfile.                                       *)
(***************************************************************************)
HealthProfile ==
    Profile([ok |-> TRUE, mean |-> 0 - 30000,
             face_means |-> [eye_dist |-> 50, bbox_area |-> NoValue]],
            [ok |-> TRUE, mean |-> 0 - 20000,
             face_means |-> [eye_dist |-> 70, bbox_area |-> NoValue]], 0)
\* Detections: a face at the calibrated distance, one too close, one turned
\* away with an eye hidden.
FaceDetected == [score |-> 800, bbox_area |-> 40, eye_dist |-> 57, yaw_proxy |-> 0]
Detections ==
    {FaceDetected,
     [score |-> 800, bbox_area |-> 90, eye_dist |-> 100, yaw_proxy |-> 0],
     [score |-> 800, bbox_area |-> 40, eye_dist |-> NoValue, yaw_proxy |-> 700]}
HealthMetric == 0 - 23000
BrightnessLevels == {40, 60, 130}
BlurLevels == {40, 200}
InitHealth ==
    /\ InitBase
    /\ \/ NoCalibration /\ observe \in {{"face_runs"}, {"pose_runs"}}
       \/ LoadCalibration(HealthProfile) /\ observe = {}
    /\ fuse_args = NoArgs
NextHealth ==
    \/ \E opened \in BOOLEAN : PipelineStart(opened)
    \/ FrameMissedSensed(MaxTickMs) /\ UNCHANGED qos_vars
    \/ \E fd_run \in BOOLEAN, det \in {FaceDetected, NoDetection} :
          /\ "face_runs" \in observe
          /\ FrameSensed(MaxTickMs, fd_run, det, TRUE, HealthMetric, 130, 200)
          /\ UNCHANGED qos_vars
    \/ \E pose_run \in BOOLEAN, nose_z \in {HealthMetric, NoValue} :
          /\ "pose_runs" \in observe
          /\ FrameSensed(MaxTickMs, TRUE, FaceDetected, pose_run, nose_z, 130, 200)
          /\ UNCHANGED qos_vars
    \/ \E det \in Detections, brightness \in BrightnessLevels,
          blur_var \in BlurLevels :
          /\ observe = {}
          /\ FrameSensed(MaxTickMs, TRUE, det, TRUE, HealthMetric, brightness,
                         blur_var)
          /\ UNCHANGED qos_vars
    \/ \E brightness \in BrightnessLevels :
          /\ observe = {} \/ brightness = 130
          /\ PipelineRaises(brightness)
SpecHealth == InitHealth /\ [][NextHealth]_vars

(***************************************************************************)
(* Properties of the frames' sensing.                                       *)
(***************************************************************************)
\* C21: no iteration of the frame loop ends the loop: after a frame that is
\* not delivered, and after one on which a detector fails, the pipeline is
\* in its loop for the next frame.
ClaimC21 == [][pipe_pc = "loop" => pipe_pc' = "loop"]_vars

\* The latest n runs of a detector all came back empty.
AllLost(runs, n) == Len(runs) >= n /\ \A i \in 1..Len(runs) : ~runs[i]

\* C24: after a processed frame the status is PAUSED if face_lost or
\* camera_error or (low_light and c_bri = 0), else DEGRADED if motion_blur or
\* looking_away or pose_lost or too_close_far, else OK; face_lost holds
\* exactly when the latest 10 runs of the face detector all returned no
\* detection, pose_lost exactly when the latest 10 runs of the pose detector
\* all came without landmarks; frames on which a detector did not run do
\* not count.
ClaimC24 ==
    detector_runs.last = "processed" =>
        /\ g_health.status =
              IF \/ g_health_flags.face_lost
                 \/ g_health.camera_error
                 \/ /\ g_health_flags.low_light
                    /\ norm_quality(g_health_flags.brightness, BRIGHTNESS_MIN,
                                    BRIGHTNESS_GOOD) = 0
              THEN "PAUSED"
              ELSE IF \/ g_health_flags.motion_blur
                      \/ g_health_flags.looking_away
                      \/ g_health_flags.pose_lost
                      \/ g_health_flags.too_close_far
              THEN "DEGRADED"
              ELSE "OK"
        /\ "face_runs" \in observe =>
              (g_health_flags.face_lost <=> AllLost(detector_runs.face, 10))
        /\ "pose_runs" \in observe =>
              (g_health_flags.pose_lost <=> AllLost(detector_runs.pose, 10))

\* A face was detected, and then the face detector ran 10 times without a
\* detection: face_lost is set and the status is PAUSED.
WitnessC24 ==
    /\ detector_runs.last = "processed"
    /\ AllLost(detector_runs.face, 10)
    /\ g_features.has_face
    /\ g_health_flags.face_lost /\ g_health.status = "PAUSED"


\* C28: has_face and eyes_visible of the published features are true only
\* if the most recent run of the face detector returned a detection.
ClaimC28 ==
    (/\ "face_runs" \in observe
     /\ g_features.has_face \/ g_features.eyes_visible)
    => /\ detector_runs.face # <<>>
       /\ detector_runs.face[Len(detector_runs.face)]

(***************************************************************************)
(* The fusion by itself, on frames with and without pose, eyes and face.    *)
(***************************************************************************)
\* The face of a frame: none; one with eyes between the anchors; one nearer
\* than the near anchor with a score beyond 1; one whose eye distance has
\* no anchors.
FuseFaces ==
    {[eye_dist |-> NoValue, eye_far |-> NoValue, eye_near |-> NoValue,
      eyes_visible |-> FALSE, face_score |-> 0],
     [eye_dist |-> 57, eye_far |-> 50, eye_near |-> 70,
      eyes_visible |-> TRUE, face_score |-> 800],
     [eye_dist |-> 100, eye_far |-> 50, eye_near |-> 70,
      eyes_visible |-> TRUE, face_score |-> 1200],
     [eye_dist |-> 57, eye_far |-> NoValue, eye_near |-> NoValue,
      eyes_visible |-> TRUE, face_score |-> 800]}
\* The pose of a frame: none; farther than the far anchor; between the
\* anchors; nearer than the near anchor; one without anchors.
FusePoses ==
    {[metric |-> NoValue, review_mean |-> 0 - 30000, focus_mean |-> 0 - 20000,
      has_pose |-> FALSE],
     [metric |-> 0 - 35000, review_mean |-> 0 - 30000, focus_mean |-> 0 - 20000,
      has_pose |-> TRUE],
     [metric |-> 0 - 27000, review_mean |-> 0 - 30000, focus_mean |-> 0 - 20000,
      has_pose |-> TRUE],
     [metric |-> 0 - 15000, review_mean |-> 0 - 30000, focus_mean |-> 0 - 20000,
      has_pose |-> TRUE],
     [metric |-> 0 - 27000, review_mean |-> NoValue, focus_mean |-> NoValue,
      has_pose |-> TRUE]}
FuseArgs ==
    {[metric |-> p.metric, review_mean |-> p.review_mean,
      focus_mean |-> p.focus_mean,
      eye_dist |-> f.eye_dist, eye_far |-> f.eye_far, eye_near |-> f.eye_near,
      bbox_area |-> NoValue, bbox_far |-> NoValue, bbox_near |-> NoValue,
      has_pose |-> p.has_pose, eyes_visible |-> f.eyes_visible,
      has_face |-> f.face_score > 0, face_score |-> f.face_score, n |-> k] :
        p \in FusePoses, f \in FuseFaces, k \in 0..MaxFuseFrames}
Betas == {250, 1000}
InitFusion ==
    /\ InitBase /\ NoCalibration /\ observe = {}
    /\ fuse_args \in {a \in FuseArgs : a.n = 0}
NextFusion == \E beta \in Betas, next_args \in FuseArgs : FuseFrame(beta, next_args)
SpecFusion == InitFusion /\ [][NextFusion]_vars


\* A fused value: None or a number of [0, 1].
NullOrUnit(x) == x = NoValue \/ (0 <= x /\ x <= 1000)

\* The sum of the effective weights of the frame that fuse_args describes.
WeightSum ==
    LET a == fuse_args
        w == EffectiveWeights(lin_norm_near1(a.metric, a.review_mean, a.focus_mean),
                              lin_norm_near1(a.eye_dist, a.eye_far, a.eye_near),
                              lin_norm_near1(a.bbox_area, a.bbox_far, a.bbox_near),
                              a.has_pose, a.eyes_visible, a.has_face, a.face_score)
    IN  w.wz + w.weye + w.wb

\* C23: fused_raw is null or in [0, 1], and non-null exactly when the sum of
\* the effective weights is > 0; fused_ema is null or in [0, 1]; a null
\* fused_raw leaves the EMA as it was, and the first non-null one seeds it.
ClaimC23 ==
    /\ NullOrUnit(g_fused_raw) /\ NullOrUnit(g_fused_ema)
    /\ [][/\ NullOrUnit(g_fused_raw') /\ NullOrUnit(g_fused_ema')
          /\ fuse_args' # fuse_args =>
                /\ (g_fused_raw' # NoValue) <=> (WeightSum > 0)
                /\ g_fused_raw' = NoValue => g_fused_ema' = g_fused_ema
                /\ (g_fused_raw' # NoValue /\ g_fused_ema = NoValue) =>
                       g_fused_ema' = g_fused_raw'
                /\ g_fused_ema # NoValue => g_fused_ema' # NoValue
      ]_vars

\* A seeded EMA has been updated with a frame nearer than the near anchor,
\* fused to 1, and lies below it.
WitnessC23 ==
    /\ g_fused_raw = 1000
    /\ g_fused_ema # NoValue /\ g_fused_ema > 0 /\ g_fused_ema < 1000
    /\ fuse_args.n >= 2

(***************************************************************************)
(* The pipeline with what its frames sense, and the calibration of one      *)
(* connection: the frames find a pose, and a face when the face detector    *)
(* runs; a phase gives the mean of its posture, with or without face means. *)
(***************************************************************************)
ProfileResults(phase) ==
    IF phase = "REVIEW"
    THEN PhaseResults({0 - 30000}, {NoFace, [eye_dist |-> 50, bbox_area |-> NoValue]})
    ELSE PhaseResults({0 - 20000}, {NoFace, [eye_dist |-> 70, bbox_area |-> NoValue]})
ProfileDetection ==
    [score |-> 800, bbox_area |-> 40, eye_dist |-> 56, yaw_proxy |-> 0]
ProfileMetric == 0 - 27000
InitProfile == InitProgram /\ observe = {}
NextProfile ==
    \/ \E opened \in BOOLEAN : PipelineStart(opened)
    \/ \E fd_run \in BOOLEAN :
          /\ FrameSensed(MaxTickMs, fd_run, ProfileDetection, TRUE, ProfileMetric,
                         130, 200)
          /\ UNCHANGED qos_vars
    \/ Connect("c1")
    \/ \E phase \in Phases :
          Receive("c1", [cmd |-> "calibrate_phase", arg |-> "numeric"], 0, FALSE,
                  phase, CONF_MIN_DEFAULT, NoOverride)
    \/ Receive("c1", [cmd |-> "calibrate_finalize", arg |-> NULL], 0, FALSE,
               "FOCUS", CONF_MIN_DEFAULT, NoOverride)
    \/ \E res \in ProfileResults(inbound["c1"].arg) \cup {NoRes} :
          SamplingDone("c1", res)
    \/ SaveCalibration("c1", TRUE)
    \/ Publish("c1")
SpecProfile == InitProfile /\ [][NextProfile]_vars

(***************************************************************************)
(* Properties of the pipeline without a profile.                            *)
(***************************************************************************)
\* No profile is available: load_calibration_cache is None and all face
\* baselines are null.
Uncalibrated ==
    /\ load_calibration_cache = NoProfile
    /\ g_face_calib.review = NoFace /\ g_face_calib.focus = NoFace

\* C29: while no profile is available, fused_raw and fused_ema are null and
\* the posture state is FOCUS with no transition started, whatever frames
\* have been processed.
ClaimC29 ==
    Uncalibrated =>
        /\ g_fused_raw = NoValue /\ g_fused_ema = NoValue
        /\ g_current_state = STATE_FOCUS /\ g_transition_target = NULL

\* No profile is available while the results of both phases are held and
\* frames with a pose and a face have been processed.
WitnessC29 ==
    /\ Uncalibrated
    /\ BothPhases("c1")
    /\ detector_runs.last = "processed"
    /\ g_features.has_face /\ g_features.eyes_visible /\ g_features.has_pose
    /\ g_latest_metric = ProfileMetric


(***************************************************************************)
(* The threads and tasks at their locks: the pipeline thread and the two    *)
(* tasks of one connection take the steps of their programs in any order    *)
(* the operating system and the event loop allow.                           *)
(***************************************************************************)
InitLocks == InitProgram /\ observe = {}
NextLocks ==
    \/ \E t \in Threads : LockBranch(t)
    \/ \E t \in Threads : LockAcquire(t)
    \/ \E t \in Threads : LockRelease(t)
    \/ \E t \in Threads : LockIo(t)
    \/ \E t \in Threads : LockAwait(t)
SpecLocks == InitLocks /\ [][NextLocks]_vars

\* The thread or task can take a step.
CanStep(t) ==
    /\ Scheduled(t)
    /\ IF todo[t] = <<>> THEN Program(t, at[t]) # {} ELSE ~Waiting(t)

\* C22: no thread or task is inside the with blocks of two locks; none is
\* inside one when it reaches a camera read, a sleep, a detector call, a send
\* or another await; and whoever waits for a lock waits for a thread or task
\* that can go on, so that no set of them waits for one another.
ClaimC22 ==
    /\ \A t \in Threads : Cardinality(Held(t)) <= 1
    /\ \A t \in Threads :
          (todo[t] # <<>> /\ Head(todo[t]).op \in {"io", "await"}) => Held(t) = {}
    /\ \A t \in Threads :
          Waiting(t) => CanStep(lock_owner[Head(todo[t]).what])

\* The event loop stands at the heartbeat's with block of g_health_lock while
\* the pipeline thread is inside its own.
WitnessC22 ==
    /\ Waiting("ws_sender")
    /\ Head(todo["ws_sender"]).what = "g_health_lock"
    /\ lock_owner["g_health_lock"] = "run_pose_detection"
    /\ running = "ws_sender"
=============================================================================
